---- MODULE Spec2Model ----
(***************************************************************************)
(* Verification model of the server-manager control plane: the container  *)
(* lifecycle controllers (engine and cluster), the volume controller, the *)
(* stream aggregator, the persistence layer's port bookkeeping and the    *)
(* reverse-proxy router.                                                   *)
(***************************************************************************)
EXTENDS Integers, Sequences, FiniteSets, TLC

\* ---------------------------------------------------------------- bounds
\* number of ports in the configured range SM_PORT_START..SM_PORT_END
NumPorts == 3
\* number of server rows the persistence layer may ever hand an id to
MaxServers == 2
ChunkSize == 2     \* bytes per chunk of a streamed file (CHUNK_SIZE, 4096)
TarOffset == 1     \* bytes of an archive before the data of its first member
MaxPods == 2       \* pods selected by one workload's label
MaxSessions == 2   \* sessions left open that the model follows
QueueMax == 2      \* capacity of the shared delivery queue (maxsize, 100)
MaxLines == 2      \* lines the followed pod log delivers
MaxAbandoned == 1  \* queue reads left running by a timed-out wait_for

\* ------------------------------------------------------------- constants
SM_PORT_START == 30000
SM_PORT_END == SM_PORT_START + NumPorts - 1
HTTP_NOT_FOUND == 404
HTTP_OK == 200
\* any API status other than OK and not-found
HTTP_ERROR == HTTP_NOT_FOUND + 96
HTTP_CONFLICT == HTTP_NOT_FOUND + 5

banned_container_access ==
  {"server-manager", "rproxy", "docker-socket-proxy", "postgres", "postgres_admin"}

\* workload names used by the requests of the model
Names == {"s1", "legacy1", "postgres"}

\* --------------------------------------------------------------- state
VARIABLES
  backend,      \* implementation chosen by get_client: "docker" or "k8s"
  containers,   \* engine: name -> "absent" | "exited" | "running"
  cr,           \* cluster: name -> "absent" | GameServer custom resource
  deployment,   \* cluster: name -> "absent" | Deployment
  last,         \* the last call: operation, argument, result, backend calls
  servers,      \* persistence: the rows of table servers
  nextId,       \* persistence: the next primary key of table servers
  templates,    \* persistence: template id -> exposed_port
  routes,       \* reverse proxy: the layer-4 servers registered, by @id
  tasks,        \* aggregator: the registry, name -> Provider or none
  detached,     \* aggregator: live tasks no registry entry refers to
  loop,         \* the event loop: "running", or "closing" once it cancels all tasks
  remote,       \* cluster: the files of game server s1, reached over SFTP
  sessions,     \* backend sessions open: engine clients and SFTP connections
  reader,       \* the read_file stream being consumed or consumed last, if any
  rooms,        \* socket server: subscriber id -> the rooms it has entered
  router_used_ports,  \* reverse-proxy router: ServerRouter.used_ports
  environ,      \* the process: importable packages and the value of SM_K8S
  queue,        \* aggregator: the shared delivery queue of merge_streams
  logstream,    \* cluster: one followed stream_logs call, its thread and queue
  metricstream  \* cluster: one stream_metrics call, its position and its samples

lifecycleVars == <<backend, containers, cr, deployment>>

\* one backend API call as seen on the wire
Call(api, name, arg, status) ==
  [api |-> api, name |-> name, arg |-> arg, status |-> status]

NoCall == <<>>

\* arg is the numeric argument of the call (a server id, a count; 0 when
\* there is none), out a returned list (unused_port) or the result of the
\* backend call a handler made, <<>> for the other calls
LastOut(op, name, arg, ret, calls, out) ==
  [op |-> op, name |-> name, arg |-> arg, ret |-> ret, calls |-> calls, out |-> out]

Last(op, name, ret, calls) == LastOut(op, name, 0, ret, calls, <<>>)

\* ------------------------------------------- engine backend (aiodocker)
\* status of client.containers.get(name) / any call on the container
engine_status(name, ok) ==
  IF ~ok THEN HTTP_ERROR
  ELSE IF containers[name] = "absent" THEN HTTP_NOT_FOUND ELSE HTTP_OK

\* context_provider.docker_container: any DockerError becomes HTTP 404
docker_container(name, ok) ==
  Call("containers.get", name, "", engine_status(name, ok))

DockerRes(ret, cs, calls) == [ret |-> ret, containers |-> cs, calls |-> calls]

DockerContainerAPI_create(name) ==
  DockerRes("False", containers, NoCall)

DockerContainerAPI_start(name, ok) ==
  IF name \in banned_container_access
  THEN DockerRes("HTTP403", containers, NoCall)
  ELSE LET c == docker_container(name, ok) IN
       IF c.status # HTTP_OK
       THEN DockerRes("HTTP404", containers, <<c>>)
       ELSE DockerRes("True", [containers EXCEPT ![name] = "running"],
                      <<c, Call("container.start", name, "", HTTP_OK)>>)

DockerContainerAPI_stop(name, ok) ==
  IF name \in banned_container_access
  THEN DockerRes("HTTP403", containers, NoCall)
  ELSE LET c == docker_container(name, ok) IN
       IF c.status # HTTP_OK
       THEN DockerRes("HTTP404", containers, <<c>>)
       ELSE DockerRes("True", [containers EXCEPT ![name] = "exited"],
                      <<c, Call("container.stop", name, "", HTTP_OK)>>)

DockerContainerAPI_is_running(name, ok) ==
  IF name \in banned_container_access
  THEN DockerRes("HTTP403", containers, NoCall)
  ELSE LET c == docker_container(name, ok) IN
       IF c.status # HTTP_OK
       THEN DockerRes("HTTP404", containers, <<c>>)
       ELSE DockerRes(IF containers[name] = "running" THEN "True" ELSE "False",
                      containers,
                      <<c, Call("container.show", name, "", HTTP_OK)>>)

\* _docker_container_inspect followed by health_status' own formatting;
\* hasLog says whether the engine's health-check log has an entry
DockerContainerAPI_health_status(name, ok, hasLog) ==
  IF name \in banned_container_access
  THEN DockerRes("HTTP403", containers, NoCall)
  ELSE LET r == DockerContainerAPI_is_running(name, ok) IN
       IF r.ret = "HTTP404" THEN r
       ELSE IF r.ret # "True" THEN DockerRes("HTTP400", containers, r.calls)
       ELSE DockerRes(IF hasLog THEN "Output" ELSE "Health Check N/A",
                      containers,
                      r.calls \o <<docker_container(name, ok),
                                   Call("container.show", name, "", HTTP_OK)>>)

\* command has no deny-list check in the source
DockerContainerAPI_command(name, ok) ==
  LET c == docker_container(name, ok) IN
  IF c.status # HTTP_OK
  THEN DockerRes("HTTP404", containers, <<c>>)
  ELSE DockerRes("True", containers,
                 <<c, Call("container.attach", name, "", HTTP_OK)>>)

DockerContainerAPI_remove(name, ok) ==
  IF name \in banned_container_access
  THEN DockerRes("HTTP403", containers, NoCall)
  ELSE LET c == docker_container(name, ok) IN
       IF c.status # HTTP_OK
       THEN DockerRes("HTTP404", containers, <<c>>)
       ELSE DockerRes("True", [containers EXCEPT ![name] = "absent"],
                      <<c, Call("container.delete", name, "force", HTTP_OK)>>)

DockerContainerAPI_exists(name, ok) ==
  IF name \in banned_container_access
  THEN DockerRes("HTTP403", containers, NoCall)
  ELSE LET c == docker_container(name, ok) IN
       DockerRes(IF c.status = HTTP_OK THEN "True" ELSE "False", containers, <<c>>)

\* ------------------------- engine backend, module docker_interface (legacy)
\* docker_interface.docker_container hands out a lazy handle without asking
\* the engine and swallows a DockerError raised by the body of the block:
\* the body is cut short and the function continues after the block.
docker_container_running(name, ok) ==
  IF name \in banned_container_access
  THEN DockerRes("HTTP403", containers, NoCall)
  ELSE LET c == Call("container.show", name, "", engine_status(name, ok)) IN
       DockerRes(IF c.status = HTTP_OK /\ containers[name] = "running"
                 THEN "True" ELSE "False", containers, <<c>>)

docker_container_stop(name, ok) ==
  IF name \in banned_container_access
  THEN DockerRes("HTTP403", containers, NoCall)
  ELSE LET c == Call("container.stop", name, "", engine_status(name, ok)) IN
       IF c.status = HTTP_OK
       THEN DockerRes("True", [containers EXCEPT ![name] = "exited"], <<c>>)
       ELSE DockerRes("None", containers, <<c>>)

docker_container_remove(name, ok) ==
  IF name \in banned_container_access
  THEN DockerRes("HTTP403", containers, NoCall)
  ELSE LET r == docker_container_running(name, ok)
           s == IF r.ret = "True" THEN docker_container_stop(name, ok).calls
                ELSE NoCall
           d == Call("container.delete", name, "", engine_status(name, ok))
       IN IF d.status = HTTP_OK
          THEN DockerRes("True", [containers EXCEPT ![name] = "absent"],
                         r.calls \o s \o <<d>>)
          ELSE DockerRes("None", containers, r.calls \o s \o <<d>>)

docker_container_name_exists(name) ==
  IF name \in banned_container_access
  THEN DockerRes("HTTP403", containers, NoCall)
  ELSE DockerRes("True", containers, NoCall)

\* docker_interface.docker_container_create: the engine refuses a name
\* that is taken (DockerError, reported as False)
docker_container_create(name, ok) ==
  LET st == IF ~ok THEN HTTP_ERROR
            ELSE IF containers[name] # "absent" THEN HTTP_CONFLICT ELSE HTTP_OK
      c == Call("containers.create", name, "", st)
  IN IF st = HTTP_OK
     THEN DockerRes("True", [containers EXCEPT ![name] = "exited"], <<c>>)
     ELSE DockerRes("False", containers, <<c>>)

\* volume functions of docker_interface.docker_volume_api: none of them
\* consults banned_container_access
docker_list_directory(name, ok) ==
  LET f == Call("container.exec", name, "find -type f", engine_status(name, ok))
      d == Call("container.exec", name, "find -type d", engine_status(name, ok))
  IN IF f.status = HTTP_OK
     THEN DockerRes("DirList", containers, <<f, d>>)
     ELSE DockerRes("None", containers, <<f>>)

docker_read_file(name, ok) ==
  LET a == Call("container.get_archive", name, "", engine_status(name, ok)) IN
  IF a.status = HTTP_OK
  THEN DockerRes("Stream", containers, <<a>>)
  ELSE DockerRes("EmptyStream", containers, <<a>>)

docker_file_upload(name, ok) ==
  LET a == Call("container.put_archive", name, "", engine_status(name, ok)) IN
  DockerRes("True", containers, <<a>>)

docker_delete_file(name, ok) ==
  LET e == Call("container.exec", name, "rm -rf", engine_status(name, ok)) IN
  IF e.status = HTTP_OK
  THEN DockerRes("True", containers, <<e>>)
  ELSE DockerRes("False", containers, <<e>>)

\* --------------------------------------- cluster backend (kubernetes SDK)
NoCR == [present |-> FALSE, running |-> FALSE, phase |-> ""]
NoDeployment == [present |-> FALSE, replicas |-> 0, available |-> 0]

\* the faults the cluster API can answer with, independent of the objects:
\* f.cr / f.dep = TRUE makes the custom-object / apps API fail with a
\* status other than not-found
Faults == [cr : BOOLEAN, dep : BOOLEAN]
NoFault == [cr |-> FALSE, dep |-> FALSE]

cr_status(name, f) ==
  IF f.cr THEN HTTP_ERROR
  ELSE IF ~cr[name].present THEN HTTP_NOT_FOUND ELSE HTTP_OK

dep_status(name, f) ==
  IF f.dep THEN HTTP_ERROR
  ELSE IF ~deployment[name].present THEN HTTP_NOT_FOUND ELSE HTTP_OK

K8sRes(ret, c, d, calls) == [ret |-> ret, cr |-> c, deployment |-> d, calls |-> calls]

\* start with the Deployment fallback taken after any failed
\* custom-resource call
KubernetesContainerAPI_start_fallback_always(name, f) ==
  LET p == Call("patch_namespaced_custom_object", name, "running=True", cr_status(name, f))
      q == Call("patch_namespaced_deployment_scale", name, "replicas=1", dep_status(name, f))
  IN IF p.status = HTTP_OK
     THEN K8sRes("True", [cr EXCEPT ![name].running = TRUE], deployment, <<p>>)
     ELSE IF q.status = HTTP_OK
          THEN K8sRes("True", cr, [deployment EXCEPT ![name].replicas = 1], <<p, q>>)
          ELSE K8sRes("False", cr, deployment, <<p, q>>)

KubernetesContainerAPI_start(name, f) ==
  LET p == Call("patch_namespaced_custom_object", name, "running=True", cr_status(name, f))
      q == Call("patch_namespaced_deployment_scale", name, "replicas=1", dep_status(name, f))
  IN IF p.status = HTTP_OK
     THEN K8sRes("True", [cr EXCEPT ![name].running = TRUE], deployment, <<p>>)
     ELSE IF p.status = HTTP_NOT_FOUND
     THEN IF q.status = HTTP_OK
          THEN K8sRes("True", cr, [deployment EXCEPT ![name].replicas = 1], <<p, q>>)
          ELSE K8sRes("False", cr, deployment, <<p, q>>)
     ELSE K8sRes("False", cr, deployment, <<p>>)

\* stop without the Deployment fallback
KubernetesContainerAPI_stop_nofallback(name, f) ==
  LET p == Call("patch_namespaced_custom_object", name, "running=False", cr_status(name, f))
  IN IF p.status = HTTP_OK
     THEN K8sRes("True", [cr EXCEPT ![name].running = FALSE], deployment, <<p>>)
     ELSE K8sRes("False", cr, deployment, <<p>>)

KubernetesContainerAPI_stop(name, f) ==
  LET p == Call("patch_namespaced_custom_object", name, "running=False", cr_status(name, f))
      q == Call("patch_namespaced_deployment_scale", name, "replicas=0", dep_status(name, f))
  IN IF p.status = HTTP_OK
     THEN K8sRes("True", [cr EXCEPT ![name].running = FALSE], deployment, <<p>>)
     ELSE IF p.status = HTTP_NOT_FOUND
     THEN IF q.status = HTTP_OK
          THEN K8sRes("True", cr, [deployment EXCEPT ![name].replicas = 0], <<p, q>>)
          ELSE K8sRes("False", cr, deployment, <<p, q>>)
     ELSE K8sRes("False", cr, deployment, <<p>>)

KubernetesContainerAPI_remove(name, f) ==
  LET p == Call("delete_namespaced_custom_object", name, "", cr_status(name, f))
      q == Call("delete_namespaced_deployment", name, "", dep_status(name, f))
  IN IF p.status = HTTP_OK
     THEN K8sRes("True", [cr EXCEPT ![name] = NoCR], deployment, <<p>>)
     ELSE IF p.status = HTTP_NOT_FOUND
     THEN IF q.status = HTTP_OK
          THEN K8sRes("True", cr, [deployment EXCEPT ![name] = NoDeployment], <<p, q>>)
          ELSE K8sRes("False", cr, deployment, <<p, q>>)
     ELSE K8sRes("False", cr, deployment, <<p>>)

KubernetesContainerAPI_exists(name, f) ==
  LET p == Call("get_namespaced_custom_object", name, "", cr_status(name, f))
      q == Call("read_namespaced_deployment", name, "", dep_status(name, f))
  IN IF p.status = HTTP_OK
     THEN K8sRes("True", cr, deployment, <<p>>)
     ELSE IF p.status = HTTP_NOT_FOUND
     THEN K8sRes(IF q.status = HTTP_OK THEN "True" ELSE "False", cr, deployment, <<p, q>>)
     ELSE K8sRes("False", cr, deployment, <<p>>)

KubernetesContainerAPI_is_running(name, f) ==
  LET p == Call("get_namespaced_custom_object", name, "", cr_status(name, f))
      q == Call("read_namespaced_deployment", name, "", dep_status(name, f))
  IN IF p.status = HTTP_OK
     THEN K8sRes(IF cr[name].phase = "Running" THEN "True" ELSE "False",
                 cr, deployment, <<p>>)
     ELSE IF p.status = HTTP_NOT_FOUND
     THEN K8sRes(IF q.status = HTTP_OK /\ deployment[name].available > 0
                 THEN "True" ELSE "False", cr, deployment, <<p, q>>)
     ELSE K8sRes("False", cr, deployment, <<p>>)

\* what the first container status of a pod says; "none" is a pod without
\* container statuses and without a Ready condition
PodStates == {"ready", "not_ready", "waiting", "terminated", "none"}

RECURSIVE SeqsUpTo(_, _)
SeqsUpTo(S, n) ==
  IF n = 0 THEN {<<>>}
  ELSE LET shorter == SeqsUpTo(S, n - 1)
       IN shorter \cup {Append(q, x) : q \in shorter, x \in S}

PodLists == SeqsUpTo(PodStates, MaxPods)

\* _get_pod_health_status reads pods.items[0] only
KubernetesContainerAPI_get_pod_health_status(pods) ==
  IF pods = <<>> THEN "No pods found"
  ELSE CASE pods[1] = "ready" -> "Healthy"
         [] pods[1] = "not_ready" -> "Running but not ready"
         [] pods[1] = "waiting" -> "Waiting"
         [] pods[1] = "terminated" -> "Terminated"
         [] pods[1] = "none" -> "Unknown"

\* health_status: the phase of the custom resource, or on not-found the
\* health of the pods labelled app=<name>; f.dep is a failure of that list
KubernetesContainerAPI_health_status(name, f, pods) ==
  LET p == Call("get_namespaced_custom_object", name, "", cr_status(name, f))
      q == Call("list_namespaced_pod", name, "app", IF f.dep THEN HTTP_ERROR ELSE HTTP_OK)
  IN IF p.status = HTTP_OK
     THEN K8sRes(IF cr[name].phase = "" THEN "Unknown" ELSE cr[name].phase,
                 cr, deployment, <<p>>)
     ELSE IF p.status = HTTP_NOT_FOUND
     THEN K8sRes(IF q.status = HTTP_OK
                 THEN KubernetesContainerAPI_get_pod_health_status(pods) ELSE "None",
                 cr, deployment, <<p, q>>)
     ELSE K8sRes("None", cr, deployment, <<p>>)

\* create_namespaced_custom_object answers 409 when the object exists
KubernetesContainerAPI_create(name, f) ==
  LET st == IF f.cr THEN HTTP_ERROR ELSE IF cr[name].present THEN HTTP_CONFLICT ELSE HTTP_OK
      p == Call("create_namespaced_custom_object", name, "running=False", st)
  IN IF st = HTTP_OK
     THEN K8sRes("True",
                 [cr EXCEPT ![name] = [present |-> TRUE, running |-> FALSE, phase |-> "Pending"]],
                 deployment, <<p>>)
     ELSE K8sRes("False", cr, deployment, <<p>>)

\* ======================================================================
\* Lifecycle and volume calls made directly on the selected backend
\* ======================================================================
\* names the cluster calls of the model are made with
K8sNames == {"s1", "legacy1"}

aggVars == <<tasks, detached, loop>>

volVars == <<remote, sessions, reader>>

nonLifecycleVars ==
  <<servers, nextId, templates, routes, aggVars, volVars, rooms, router_used_ports,
    environ, queue, logstream, metricstream>>

DockerStep(op, name, r) ==
  /\ backend = "docker"
  /\ containers' = r.containers
  /\ last' = Last(op, name, r.ret, r.calls)
  /\ UNCHANGED <<backend, cr, deployment, nonLifecycleVars>>

K8sStep(op, name, r) ==
  /\ backend = "k8s"
  /\ cr' = r.cr
  /\ deployment' = r.deployment
  /\ last' = Last(op, name, r.ret, r.calls)
  /\ UNCHANGED <<backend, containers, nonLifecycleVars>>

docker_start == \E n \in Names, ok \in BOOLEAN :
  DockerStep("start", n, DockerContainerAPI_start(n, ok))
docker_stop == \E n \in Names, ok \in BOOLEAN :
  DockerStep("stop", n, DockerContainerAPI_stop(n, ok))
docker_remove == \E n \in Names, ok \in BOOLEAN :
  DockerStep("remove", n, DockerContainerAPI_remove(n, ok))
docker_exists == \E n \in Names, ok \in BOOLEAN :
  DockerStep("exists", n, DockerContainerAPI_exists(n, ok))
docker_is_running == \E n \in Names, ok \in BOOLEAN :
  DockerStep("is_running", n, DockerContainerAPI_is_running(n, ok))
docker_health_status == \E n \in Names, ok \in BOOLEAN, hasLog \in BOOLEAN :
  DockerStep("health_status", n, DockerContainerAPI_health_status(n, ok, hasLog))
docker_command == \E n \in Names, ok \in BOOLEAN :
  DockerStep("command", n, DockerContainerAPI_command(n, ok))

legacy_create == \E n \in Names, ok \in BOOLEAN :
  DockerStep("docker_container_create", n, docker_container_create(n, ok))
legacy_remove == \E n \in Names, ok \in BOOLEAN :
  DockerStep("docker_container_remove", n, docker_container_remove(n, ok))

docker_create == \E n \in Names :
  DockerStep("create", n, DockerContainerAPI_create(n))
legacy_name_exists == \E n \in Names :
  DockerStep("docker_container_name_exists", n, docker_container_name_exists(n))

volume_list_directory == \E n \in Names, ok \in BOOLEAN :
  DockerStep("list_directory", n, docker_list_directory(n, ok))
volume_read_file == \E n \in Names, ok \in BOOLEAN :
  DockerStep("read_file", n, docker_read_file(n, ok))
volume_write_file == \E n \in Names, ok \in BOOLEAN :
  DockerStep("write_file", n, docker_file_upload(n, ok))
volume_delete_file == \E n \in Names, ok \in BOOLEAN :
  DockerStep("delete_file", n, docker_delete_file(n, ok))

k8s_create == \E n \in K8sNames, f \in Faults :
  K8sStep("create", n, KubernetesContainerAPI_create(n, f))
k8s_start == \E n \in K8sNames, f \in Faults :
  K8sStep("start", n, KubernetesContainerAPI_start(n, f))
k8s_stop == \E n \in K8sNames, f \in Faults :
  K8sStep("stop", n, KubernetesContainerAPI_stop(n, f))
k8s_remove == \E n \in K8sNames, f \in Faults :
  K8sStep("remove", n, KubernetesContainerAPI_remove(n, f))
k8s_exists == \E n \in K8sNames, f \in Faults :
  K8sStep("exists", n, KubernetesContainerAPI_exists(n, f))
k8s_is_running == \E n \in K8sNames, f \in Faults :
  K8sStep("is_running", n, KubernetesContainerAPI_is_running(n, f))

k8s_health_status == \E n \in K8sNames, f \in Faults, pods \in PodLists :
  LET r == KubernetesContainerAPI_health_status(n, f, pods) IN
  /\ backend = "k8s"
  /\ last' = LastOut("health_status", n, 0, r.ret, r.calls, pods)
  /\ UNCHANGED <<lifecycleVars, nonLifecycleVars>>

\* the cluster's own controllers bring the observed state to the desired
\* one: status.phase of a custom resource, available replicas of a Deployment
cluster_reconcile == \E n \in K8sNames :
  /\ backend = "k8s"
  /\ cr' = [cr EXCEPT ![n].phase =
              IF ~cr[n].present THEN ""
              ELSE IF cr[n].running THEN "Running" ELSE "Pending"]
  /\ deployment' = [deployment EXCEPT ![n].available = deployment[n].replicas]
  /\ <<cr', deployment'>> # <<cr, deployment>>
  /\ last' = Last("reconcile", n, "", NoCall)
  /\ UNCHANGED <<backend, containers, nonLifecycleVars>>

\* --------------------------------- backend selection (interface_manager)
\* os.environ.get("SM_K8S") when the variable is not in the environment
NoValue == "None"
EnvValues == {NoValue, "", "0", "1"}

\* what the process finds: importlib.util.find_spec of the two SDKs and SM_K8S
Environs == [kubernetes : BOOLEAN, aiodocker : BOOLEAN, SM_K8S : EnvValues]

\* Python truth of os.environ.get(...): None and the empty string are false
Truthy(v) == v \notin {NoValue, ""}

\* get_client with the engine SDK looked for first
get_client_engine_first(e) ==
  IF e.aiodocker THEN "docker"
  ELSE IF e.kubernetes /\ Truthy(e.SM_K8S) THEN "k8s"
  ELSE "ImportError"

\* interface_manager.get_client: the class of client it constructs
get_client(e) ==
  IF e.kubernetes /\ Truthy(e.SM_K8S) THEN "k8s"
  ELSE IF e.aiodocker THEN "docker"
  ELSE "ImportError"

\* the two installations the other specifications start from: both SDKs
\* installed, SM_K8S set to 1 or absent
DeployedEnvirons ==
  {[kubernetes |-> TRUE, aiodocker |-> TRUE, SM_K8S |-> v] : v \in {NoValue, "1"}}

InitWorkloads ==
  /\ containers = [n \in Names |-> IF n \in banned_container_access THEN "running" ELSE "absent"]
  /\ cr = [n \in Names |-> NoCR]
  /\ deployment = [n \in Names |->
        IF n = "legacy1" THEN [present |-> TRUE, replicas |-> 1, available |-> 1]
        ELSE NoDeployment]
  /\ last = Last("init", "", "", NoCall)

InitLifecycle ==
  /\ environ \in DeployedEnvirons
  /\ backend = get_client(environ)
  /\ backend \in {"docker", "k8s"}
  /\ InitWorkloads

\* template ids of the model and the exposed_port lists a template may carry
TemplateIds == {1}
\* a template exposing every port of the configured range
AllPorts == [i \in 1..NumPorts |-> SM_PORT_START + i - 1]
PortLists == {<<>>, <<SM_PORT_START + 1>>, <<SM_PORT_START, SM_PORT_START + 2>>, AllPorts}

InitDB ==
  /\ servers = {}
  /\ nextId = 1
  /\ templates = [t \in TemplateIds |-> <<SM_PORT_START + 1>>]

Kinds == {"task_log", "task_metric"}

\* a registry slot: no Provider, or a Provider whose two tasks are each
\* still live or already finished
NoProvider == [present |-> FALSE, live |-> [k \in Kinds |-> FALSE]]
Provider == [present |-> TRUE, live |-> [k \in Kinds |-> TRUE]]

NoDetached == [k \in Kinds |-> [live |-> 0, cancelling |-> 0]]

InitAggregator ==
  /\ tasks = [n \in Names |-> NoProvider]
  /\ detached = [n \in Names |-> NoDetached]
  /\ loop = "running"
  /\ queue = <<>>

\* the paths of the game server's volume the model follows, "/" being
\* the root that always exists
Paths == {"/data", "/data/a.txt", "/data/sub", "/data/sub/b.txt"}
FilePaths == {"/data/a.txt", "/data/sub/b.txt"}
\* file sizes on both sides of one chunk and of two chunks
FileLens == {0, 1, ChunkSize, 2 * ChunkSize + 1}
Bytes(n) == [i \in 1..n |-> i % 256]
FileData == {Bytes(n) : n \in FileLens}

NoEntry == [kind |-> "absent", data |-> <<>>]
DirEntry == [kind |-> "dir", data |-> <<>>]
FileEntry(data) == [kind |-> "file", data |-> data]

NoReader == [state |-> "none", path |-> "", data |-> <<>>, pos |-> 0, out |-> <<>>]

InitRemote ==
  /\ remote = [p \in Paths |-> IF p = "/data" THEN DirEntry ELSE NoEntry]
  /\ sessions = 0
  /\ reader = NoReader

\* socket clients, and the rooms "<node>+<container>" they can ask for
Sids == {"sidA", "sidB"}
Room(node, container) == [node |-> node, container |-> container]
RoomNames == {Room("01", c) : c \in Names}

InitRooms == rooms = [sid \in Sids |-> {}]

\* log_queue.put(None): the end-of-stream marker; lines are numbered from 1
EndOfStream == 0

\* stream_logs(follow=True) has found the pod and started watch_logs in its
\* executor; the polling loop is about to make its first read
InitLogStream ==
  logstream = [watched |-> 0, thread |-> "running", stop_event |-> FALSE,
               log_queue |-> <<>>, consumer |-> "polling", job |-> "none",
               abandoned |-> 0, yielded |-> <<>>]

\* stream_metrics has been called and is about to look for the pod
InitMetricStream == metricstream = [pos |-> "find_pod", yielded |-> <<>>]

InitRouter == routes = {} /\ router_used_ports = {}

Init ==
  /\ InitLifecycle /\ InitDB /\ InitRouter /\ InitAggregator /\ InitRemote /\ InitRooms
  /\ InitLogStream /\ InitMetricStream

\* the application started with the engine client selected
InitDocker == Init /\ backend = "docker"

\* the application started with the cluster client selected
InitK8s == Init /\ backend = "k8s"

vars == <<backend, containers, cr, deployment, last, servers, nextId, templates, routes,
          tasks, detached, loop, remote, sessions, reader, rooms, router_used_ports,
          environ, queue, logstream, metricstream>>

Next ==
  \/ docker_start \/ docker_stop \/ docker_remove \/ docker_exists
  \/ docker_is_running \/ docker_health_status \/ docker_command
  \/ legacy_create \/ legacy_remove
  \/ volume_list_directory \/ volume_read_file \/ volume_write_file
  \/ volume_delete_file
  \/ k8s_create \/ k8s_start \/ k8s_stop \/ k8s_remove \/ k8s_exists
  \/ k8s_is_running \/ cluster_reconcile

Spec == Init /\ [][Next]_vars

NextCreate ==
  \/ docker_create \/ legacy_create \/ docker_exists \/ legacy_name_exists
  \/ docker_remove \/ docker_start

SpecCreate == InitDocker /\ [][NextCreate]_vars

NextHealth == k8s_health_status \/ k8s_create \/ k8s_start \/ cluster_reconcile

SpecHealth == InitK8s /\ [][NextHealth]_vars

\* ======================================================================
\* Persistence layer (util/data_access.py)
\* ======================================================================
Range(q) == {q[i] : i \in 1..Len(q)}

Min(S) == CHOOSE m \in S : \A x \in S : m <= x

\* ORDER BY port LIMIT n over a set of ports
RECURSIVE LowestN(_, _)
LowestN(S, n) ==
  IF n <= 0 \/ S = {} THEN <<>>
  ELSE <<Min(S)>> \o LowestN(S \ {Min(S)}, n - 1)

\* SELECT unnest(servers.port)
used_ports == UNION {Range(s.port) : s \in servers}

\* unused_port without the NOT IN filter
unused_port_nofilter(count) ==
  LowestN(SM_PORT_START..SM_PORT_END, count)

\* generate_series(SM_PORT_START, SM_PORT_END) WHERE port NOT IN used
\* ORDER BY port LIMIT count
unused_port(count) ==
  LowestN({p \in SM_PORT_START..SM_PORT_END : p \notin used_ports}, count)

get_server(id) == {s \in servers : s.id = id}
get_server_by_name(name) == {s \in servers : s.name = name}

\* DB.create_server: INSERT with the next primary key
DB_create_server(name, template_id, port) ==
  [id |-> nextId, name |-> name, container_name |-> name,
   template_id |-> template_id, port |-> port]

\* ======================================================================
\* The client the route handlers are given (interface_manager.get_client)
\* ======================================================================
FromDocker(r) ==
  [ret |-> r.ret, containers |-> r.containers, cr |-> cr,
   deployment |-> deployment, calls |-> r.calls]
FromK8s(r) ==
  [ret |-> r.ret, containers |-> containers, cr |-> r.cr,
   deployment |-> r.deployment, calls |-> r.calls]

client_create(name, ok, f) ==
  IF backend = "k8s" THEN FromK8s(KubernetesContainerAPI_create(name, f))
  ELSE FromDocker(DockerContainerAPI_create(name))
client_remove(name, ok, f) ==
  IF backend = "k8s" THEN FromK8s(KubernetesContainerAPI_remove(name, f))
  ELSE FromDocker(DockerContainerAPI_remove(name, ok))
client_start(name, ok, f) ==
  IF backend = "k8s" THEN FromK8s(KubernetesContainerAPI_start(name, f))
  ELSE FromDocker(DockerContainerAPI_start(name, ok))
client_stop(name, ok, f) ==
  IF backend = "k8s" THEN FromK8s(KubernetesContainerAPI_stop(name, f))
  ELSE FromDocker(DockerContainerAPI_stop(name, ok))

Raised(ret) == ret \in {"HTTP400", "HTTP403", "HTTP404"}

WorkloadExists(name) ==
  IF backend = "k8s" THEN cr[name].present \/ deployment[name].present
  ELSE containers[name] # "absent"

\* ------------------------------ one lifecycle request, client resolved anew
\* get_interface_manager: every request calls get_client() again and is
\* handed a new client object; the request fails when get_client raises
Served(op, name, e, docker, k8s) ==
  LET c == get_client(e) IN
  IF c = "ImportError"
  THEN /\ last' = LastOut(op, name, 0, "ImportError", NoCall, <<c>>)
       /\ UNCHANGED <<containers, cr, deployment>>
  ELSE LET r == IF c = "k8s" THEN FromK8s(k8s) ELSE FromDocker(docker) IN
       /\ containers' = r.containers
       /\ cr' = r.cr
       /\ deployment' = r.deployment
       /\ last' = LastOut(op, name, 0, r.ret, r.calls, <<c>>)

SelectorUnchanged == UNCHANGED <<backend, nonLifecycleVars>>

request_create == \E n \in K8sNames, f \in Faults :
  /\ Served("create", n, environ, DockerContainerAPI_create(n), KubernetesContainerAPI_create(n, f))
  /\ SelectorUnchanged

request_start == \E n \in K8sNames, ok \in BOOLEAN, f \in Faults :
  /\ Served("start", n, environ, DockerContainerAPI_start(n, ok), KubernetesContainerAPI_start(n, f))
  /\ SelectorUnchanged

request_stop == \E n \in K8sNames, ok \in BOOLEAN, f \in Faults :
  /\ Served("stop", n, environ, DockerContainerAPI_stop(n, ok), KubernetesContainerAPI_stop(n, f))
  /\ SelectorUnchanged

request_exists == \E n \in K8sNames, ok \in BOOLEAN, f \in Faults :
  /\ Served("exists", n, environ, DockerContainerAPI_exists(n, ok), KubernetesContainerAPI_exists(n, f))
  /\ SelectorUnchanged

\* the process starts in any environment; backend is what get_client
\* answers when the application starts
InitSelector ==
  /\ environ \in Environs
  /\ backend = get_client(environ)
  /\ InitWorkloads
  /\ InitDB /\ InitRouter /\ InitAggregator /\ InitRemote /\ InitRooms
  /\ InitLogStream /\ InitMetricStream

NextSelector ==
  \/ request_create \/ request_start \/ request_stop \/ request_exists
  \/ legacy_create

SpecSelector == InitSelector /\ [][NextSelector]_vars

\* ======================================================================
\* Route handlers (routes/server_api.py)
\* ======================================================================
\* what the backend in use can answer with: the engine is reachable or not,
\* the cluster API raises one of its faults
BackendInputs ==
  IF backend = "k8s" THEN {[ok |-> TRUE, f |-> f] : f \in Faults}
  ELSE {[ok |-> b, f |-> NoFault] : b \in BOOLEAN}

\* template ids a request may name: 2 is the id of no template
RequestTemplateIds == TemplateIds \cup {2}

create_server == \E name \in Names, tid \in RequestTemplateIds,
                    user_ok \in BOOLEAN, x \in BackendInputs :
  /\ nextId <= MaxServers
  /\ IF get_server_by_name(name) # {}
     THEN /\ last' = Last("create_server", name, "HTTP400", NoCall)
          /\ UNCHANGED <<servers, nextId, containers, cr, deployment>>
     ELSE IF tid \notin DOMAIN templates
     THEN /\ last' = Last("create_server", name, "HTTP404", NoCall)
          /\ UNCHANGED <<servers, nextId, containers, cr, deployment>>
     ELSE IF ~user_ok
     THEN /\ last' = Last("create_server", name, "HTTP400", NoCall)
          /\ UNCHANGED <<servers, nextId, containers, cr, deployment>>
     ELSE LET r == client_create(name, x.ok, x.f) IN
          /\ containers' = r.containers
          /\ cr' = r.cr
          /\ deployment' = r.deployment
          /\ servers' = servers \cup {DB_create_server(name, tid, templates[tid])}
          /\ nextId' = nextId + 1
          /\ last' = LastOut("create_server", name, nextId, "ServersRead", r.calls, <<r.ret>>)
  /\ UNCHANGED <<backend, templates, routes, aggVars, volVars, rooms, router_used_ports, environ, queue, logstream, metricstream>>

ServerIds == 1..MaxServers

delete_server == \E id \in ServerIds, x \in BackendInputs :
  LET found == get_server(id) IN
  /\ IF found = {}
     THEN /\ last' = Last("delete_server", "", "False", NoCall)
          /\ UNCHANGED <<servers, containers, cr, deployment>>
     ELSE LET server == CHOOSE s \in found : TRUE
              r == client_remove(server.container_name, x.ok, x.f)
          IN /\ containers' = r.containers
             /\ cr' = r.cr
             /\ deployment' = r.deployment
             /\ IF Raised(r.ret)
                THEN /\ servers' = servers
                     /\ last' = Last("delete_server", server.container_name, r.ret, r.calls)
                ELSE /\ servers' = servers \ found
                     /\ last' = LastOut("delete_server", server.container_name, id,
                                        "True", r.calls, <<r.ret>>)
  /\ UNCHANGED <<backend, nextId, templates, routes, aggVars, volVars, rooms, router_used_ports, environ, queue, logstream, metricstream>>

start_server == \E id \in ServerIds, x \in BackendInputs :
  LET found == get_server(id) IN
  /\ IF found = {}
     THEN /\ last' = Last("start_server", "", "False", NoCall)
          /\ UNCHANGED <<containers, cr, deployment>>
     ELSE LET server == CHOOSE s \in found : TRUE
              r == client_start(server.container_name, x.ok, x.f)
          IN /\ containers' = r.containers
             /\ cr' = r.cr
             /\ deployment' = r.deployment
             /\ last' = LastOut("start_server", server.container_name, id, r.ret, r.calls, <<>>)
  /\ UNCHANGED <<backend, servers, nextId, templates, routes, aggVars, volVars, rooms, router_used_ports, environ, queue, logstream, metricstream>>

stop_server == \E id \in ServerIds, x \in BackendInputs :
  LET found == get_server(id) IN
  /\ IF found = {}
     THEN /\ last' = Last("stop_server", "", "False", NoCall)
          /\ UNCHANGED <<containers, cr, deployment>>
     ELSE LET server == CHOOSE s \in found : TRUE
              r == client_stop(server.container_name, x.ok, x.f)
          IN /\ containers' = r.containers
             /\ cr' = r.cr
             /\ deployment' = r.deployment
             /\ last' = LastOut("stop_server", server.container_name, id, r.ret, r.calls, <<>>)
  /\ UNCHANGED <<backend, servers, nextId, templates, routes, aggVars, volVars, rooms, router_used_ports, environ, queue, logstream, metricstream>>

\* DB.unused_port(count) called on the current rows
call_unused_port == \E count \in 0..(NumPorts + 1) :
  /\ last' = LastOut("unused_port", "", count, "list", NoCall, unused_port(count))
  /\ UNCHANGED <<lifecycleVars, nonLifecycleVars>>

NextRoutes ==
  \/ create_server \/ delete_server \/ start_server \/ stop_server
  \/ call_unused_port

SpecRoutes == Init /\ [][NextRoutes]_vars


\* ======================================================================
\* Reverse-proxy router (net/server_router.py)
\* ======================================================================
\* what the proxy's admin API does with a request: accept it, answer with
\* a status other than OK, or be unreachable (requests raises)
\* "ok_no_json" is an OK answer whose body response.json() cannot parse,
\* such as the empty body
ProxyAnswers == {"ok", "ok_no_json", "refused", "down"}

\* the proxy applied the request and answered with status OK
ProxyAccepts(proxy) == proxy \in {"ok", "ok_no_json"}

ProxyStatus(proxy) == IF ProxyAccepts(proxy) THEN HTTP_OK ELSE HTTP_ERROR

\* dict(zip(exposed_port, port, strict=True)) for lists of equal length
\* without a repeated exposed port: the pairs in insertion order
ZipPorts(exposed_port, port) ==
  [i \in 1..Len(exposed_port) |-> <<exposed_port[i], port[i]>>]

RouterRes(ret, rs, calls) == [ret |-> ret, routes |-> rs, calls |-> calls]

\* add_caddy_route: popitem takes the pair inserted last and raises KeyError
\* on an empty dict, outside the suppress block; the POST replaces the
\* layer-4 server stored under the container's name; response.json() is
\* evaluated for the debug line before the status is compared, and what it
\* raises is suppressed, so the function falls through to return False
add_caddy_route(container_name, port_mappings, proxy) ==
  IF Len(port_mappings) = 0 THEN RouterRes("KeyError", routes, NoCall)
  ELSE
  LET pair == port_mappings[Len(port_mappings)]
      c == Call("POST /config/apps/layer4/servers", container_name, "", ProxyStatus(proxy))
      registered == {r \in routes : r.id # container_name}
                      \cup {[id |-> container_name, listen |-> pair[2], dial |-> pair[1]]}
  IN IF proxy = "ok" THEN RouterRes("True", registered, <<c>>)
     ELSE IF proxy = "ok_no_json" THEN RouterRes("False", registered, <<c>>)
     ELSE RouterRes("False", routes, <<c>>)

\* delete_caddy_route: DELETE /id/<name>; the proxy answers OK only for an
\* id it knows
delete_caddy_route(container_name, proxy) ==
  LET known == \E r \in routes : r.id = container_name
      st == IF ProxyAccepts(proxy) /\ known THEN HTTP_OK
            ELSE IF ProxyAccepts(proxy) THEN HTTP_NOT_FOUND ELSE HTTP_ERROR
      c == Call("DELETE /id", container_name, "", st)
  IN IF st = HTTP_OK
     THEN RouterRes("True", {r \in routes : r.id # container_name}, <<c>>)
     ELSE RouterRes("False", routes, <<c>>)

\* open_ports(server): found is the set holding the row, empty for None.
\* docker_container_name_exists is called without await, so the condition
\* sees a coroutine object, which is true whatever the engine holds.
open_ports(found, proxy) ==
  IF found = {} THEN RouterRes("AttributeError", routes, NoCall)
  ELSE LET server == CHOOSE s \in found : TRUE
           hasTemplate == server.template_id \in DOMAIN templates
       IN IF /\ hasTemplate
             /\ templates[server.template_id] # <<>>
             /\ server.port # <<>>
          THEN IF Len(templates[server.template_id]) # Len(server.port)
               THEN RouterRes("False", routes, NoCall)
               ELSE add_caddy_route(server.container_name,
                                    ZipPorts(templates[server.template_id], server.port),
                                    proxy)
          ELSE RouterRes("False", routes, NoCall)

call_open_ports == \E id \in 0..MaxServers, proxy \in ProxyAnswers :
  LET found == get_server(id)
      r == open_ports(found, proxy)
  IN /\ routes' = r.routes
     /\ last' = LastOut("open_ports",
                        IF found = {} THEN "" ELSE (CHOOSE s \in found : TRUE).container_name,
                        id, r.ret, r.calls, <<>>)
     /\ UNCHANGED <<lifecycleVars, servers, nextId, templates, aggVars, volVars, rooms, router_used_ports, environ, queue, logstream, metricstream>>

call_delete_caddy_route == \E name \in Names, proxy \in ProxyAnswers :
  LET r == delete_caddy_route(name, proxy) IN
  /\ routes' = r.routes
  /\ last' = Last("delete_caddy_route", name, r.ret, r.calls)
  /\ UNCHANGED <<lifecycleVars, servers, nextId, templates, aggVars, volVars, rooms, router_used_ports, environ, queue, logstream, metricstream>>

\* DB.update_template: the explicit update path of a template
update_template == \E tid \in TemplateIds, ports \in PortLists :
  /\ templates[tid] # ports
  /\ templates' = [templates EXCEPT ![tid] = ports]
  /\ last' = Last("update_template", "", "Templates", NoCall)
  /\ UNCHANGED <<lifecycleVars, servers, nextId, routes, aggVars, volVars, rooms, router_used_ports, environ, queue, logstream, metricstream>>

\* the port_mappings a caller may pass: exposed port -> proxy port, the
\* empty dict included
PortMappings == {ZipPorts(p, p) : p \in PortLists}

call_add_caddy_route == \E name \in Names, m \in PortMappings, proxy \in ProxyAnswers :
  LET r == add_caddy_route(name, m, proxy) IN
  /\ routes' = r.routes
  /\ last' = LastOut("add_caddy_route", name, Len(m), r.ret, r.calls, <<proxy>>)
  /\ UNCHANGED <<lifecycleVars, servers, nextId, templates, aggVars, volVars, rooms,
                 router_used_ports, environ, queue, logstream, metricstream>>

NextCaddy == call_add_caddy_route \/ call_delete_caddy_route

SpecCaddy == InitDocker /\ [][NextCaddy]_vars

NextRouter ==
  \/ create_server \/ update_template \/ legacy_create
  \/ call_open_ports \/ call_delete_caddy_route

\* the router addresses containers of the engine's network
SpecRouter == InitDocker /\ [][NextRouter]_vars

\* ------------------------------------------------ the router's port pool
\* the record sm_logger.error leaves
LogError(msg) == Call("sm_logger.error", "", msg, 0)

PortRes(ret, out, held, calls) ==
  [ret |-> ret, out |-> out, used_ports |-> held, calls |-> calls]

\* ServerRouter.allocate_port: the first port of the range that is not held
allocate_port(held) ==
  LET free == {p \in SM_PORT_START..SM_PORT_END : p \notin held} IN
  IF free # {}
  THEN PortRes("int", <<Min(free)>>, held \cup {Min(free)}, NoCall)
  ELSE PortRes("None", <<>>, held, <<LogError("No available ports in the range")>>)

\* ServerRouter.release_port
release_port(held, port) == held \ {port}

call_allocate_port ==
  LET r == allocate_port(router_used_ports) IN
  /\ router_used_ports' = r.used_ports
  /\ last' = LastOut("allocate_port", "", 0, r.ret, r.calls, r.out)
  /\ UNCHANGED <<lifecycleVars, servers, nextId, templates, routes, aggVars, volVars, rooms, environ, queue, logstream, metricstream>>

\* ports a caller may hand back: those of the range and one outside it
ReleasablePorts == SM_PORT_START..(SM_PORT_END + 1)

call_release_port == \E port \in ReleasablePorts :
  /\ router_used_ports' = release_port(router_used_ports, port)
  /\ last' = LastOut("release_port", "", port, "None", NoCall, <<>>)
  /\ UNCHANGED <<lifecycleVars, servers, nextId, templates, routes, aggVars, volVars, rooms, environ, queue, logstream, metricstream>>

NextPorts ==
  \/ call_allocate_port \/ call_release_port \/ call_unused_port
  \/ create_server \/ update_template

SpecPorts == InitDocker /\ [][NextPorts]_vars


\* ======================================================================
\* Stream aggregator (docker_interface/docker_container_api.merge_streams)
\* ======================================================================
\* Provider.cancel_all with only task_log cancelled
cancel_all_log_only(p, d) ==
  [k \in Kinds |->
     IF p.live[k]
     THEN [live |-> d[k].live + 1,
           cancelling |-> d[k].cancelling + (IF k = "task_log" THEN 1 ELSE 0)]
     ELSE d[k]]

\* Provider.cancel_all on a Provider just popped from the registry: each
\* task that has not finished gets a cancellation request and stays live
\* until it has handled it; cancel() on a finished task does nothing
cancel_all(p, d) ==
  [k \in Kinds |->
     IF p.live[k]
     THEN [live |-> d[k].live + 1, cancelling |-> d[k].cancelling + 1]
     ELSE d[k]]

running_containers == {n \in Names : containers[n] = "running"}

CancelPending == \E n \in Names, k \in Kinds : detached[n][k].cancelling > 0

\* one pass of __monitor_all_containers, from containers.list() to the
\* sleep.  A cancelled task runs its handler in the loop iteration after
\* cancel(), long before the five-second sleep ends: a pass starts with no
\* cancellation pending.
\* the first loop of a pass with the deny-list test left out
new_containers_any(running, registry) ==
  {n \in running : ~registry[n].present}

\* the names the first loop of a pass starts a task pair for: running, not
\* a key of the registry, not deny-listed
new_containers(running, registry) ==
  {n \in running : ~registry[n].present /\ n \notin banned_container_access}

monitor_pass ==
  LET started == new_containers(running_containers, tasks)
      tasks1 == [n \in Names |-> IF n \in started THEN Provider ELSE tasks[n]]
      stopped == {n \in Names : tasks1[n].present /\ n \notin running_containers}
  IN /\ backend = "docker"
     /\ loop = "running"
     /\ ~CancelPending
     /\ tasks' = [n \in Names |-> IF n \in stopped THEN NoProvider ELSE tasks1[n]]
     /\ detached' = [n \in Names |->
                       IF n \in stopped THEN cancel_all(tasks1[n], detached[n])
                       ELSE detached[n]]
     /\ last' = Last("monitor_pass", "", "", NoCall)
     /\ UNCHANGED <<lifecycleVars, servers, nextId, templates, routes, volVars, loop, rooms, router_used_ports, environ, queue, logstream, metricstream>>

\* enqueue_stream's handler of CancelledError in a cancelled task: it pops
\* and cancels the registry entry of its container if there is one
deliver_cancel == \E n \in Names, k \in Kinds :
  /\ detached[n][k].cancelling > 0
  /\ LET d1 == IF tasks[n].present THEN cancel_all(tasks[n], detached[n])
               ELSE detached[n]
     IN detached' = [detached EXCEPT ![n] =
                       [d1 EXCEPT ![k] = [live |-> d1[k].live - 1,
                                          cancelling |-> d1[k].cancelling - 1]]]
  /\ tasks' = [tasks EXCEPT ![n] = NoProvider]
  /\ last' = Last("deliver_cancel", n, k, NoCall)
  /\ UNCHANGED <<lifecycleVars, servers, nextId, templates, routes, volVars, loop, rooms, router_used_ports, environ, queue, logstream, metricstream>>

\* a task of the registry ends on its own: its stream is exhausted or raises
task_ends == \E n \in Names, k \in Kinds :
  /\ tasks[n].present
  /\ tasks[n].live[k]
  /\ tasks' = [tasks EXCEPT ![n].live[k] = FALSE]
  /\ last' = Last("task_ends", n, k, NoCall)
  /\ UNCHANGED <<lifecycleVars, servers, nextId, templates, routes, detached, volVars, loop, rooms, router_used_ports, environ, queue, logstream, metricstream>>

\* the process ends: the event loop cancels every task that is left, the
\* monitor and the stream tasks of the registry included
shutdown ==
  /\ backend = "docker"
  /\ loop = "running"
  /\ loop' = "closing"
  /\ last' = Last("shutdown", "", "", NoCall)
  /\ UNCHANGED <<lifecycleVars, servers, nextId, templates, routes, volVars, tasks, detached, rooms, router_used_ports, environ, queue, logstream, metricstream>>

\* enqueue_stream's handler of CancelledError in a task that the closing
\* loop cancelled while its Provider was still in the registry: it pops the
\* Provider and cancels both tasks, then ends
deliver_loop_cancel == \E n \in Names, k \in Kinds :
  /\ loop = "closing"
  /\ tasks[n].present
  /\ tasks[n].live[k]
  /\ LET d1 == cancel_all(tasks[n], detached[n])
     IN detached' = [detached EXCEPT ![n] =
                       [d1 EXCEPT ![k] = [live |-> d1[k].live - 1,
                                          cancelling |-> d1[k].cancelling - 1]]]
  /\ tasks' = [tasks EXCEPT ![n] = NoProvider]
  /\ last' = Last("deliver_loop_cancel", n, k, NoCall)
  /\ UNCHANGED <<lifecycleVars, servers, nextId, templates, routes, volVars, loop, rooms, router_used_ports, environ, queue, logstream, metricstream>>

\* Message with the room of one fixed container, whatever stream the
\* payload came from
Message_one_room(container_name, command) ==
  [room |-> Room("01", "s1"), event_type |-> command, data |-> container_name]

\* Message(data=msg, room=f"01+{container_name}", event_type=command); the
\* payload is followed by the container whose stream produced it
Message(container_name, command) ==
  [room |-> Room("01", container_name), event_type |-> command, data |-> container_name]

\* the stream a slot of Provider runs: the pair is built positionally, the
\* metrics task first, so field task_log holds the metrics task
SlotCommand(k) == IF k = "task_log" THEN "push_metric" ELSE "push_log"

\* a task of the registry gets a message from its stream and puts it on the
\* queue; put waits while the queue is full
task_puts == \E n \in Names, k \in Kinds :
  /\ loop = "running"
  /\ tasks[n].present
  /\ tasks[n].live[k]
  /\ Len(queue) < QueueMax
  /\ queue' = Append(queue, Message(n, SlotCommand(k)))
  /\ last' = Last("queue.put", n, SlotCommand(k), NoCall)
  /\ UNCHANGED <<lifecycleVars, servers, nextId, templates, routes, aggVars, volVars, rooms,
                 router_used_ports, environ, logstream, metricstream>>

\* the subscribers sio_app.emit(room=...) reaches
participants(room) == {sid \in Sids : room \in rooms[sid]}

\* process_all_rooms_task: the consumer takes the oldest message and emits
\* it to the room the message names
consumer_emit ==
  /\ loop = "running"
  /\ queue # <<>>
  /\ queue' = Tail(queue)
  /\ last' = LastOut("emit", Head(queue).room.container, 0, Head(queue).event_type, NoCall,
                     <<Head(queue), participants(Head(queue).room)>>)
  /\ UNCHANGED <<lifecycleVars, servers, nextId, templates, routes, aggVars, volVars, rooms,
                 router_used_ports, environ, logstream, metricstream>>

NextQueue ==
  \/ monitor_pass \/ deliver_cancel \/ task_puts \/ consumer_emit
  \/ legacy_create \/ docker_start \/ docker_stop

SpecQueue == InitDocker /\ [][NextQueue]_vars

\* the monitor keeps running passes while workloads stay up: no container
\* is stopped, the five-second sleep always ends
NextRestart ==
  \/ monitor_pass \/ task_ends \/ task_puts \/ consumer_emit
  \/ legacy_create \/ docker_start

SpecRestart == InitDocker /\ [][NextRestart]_vars /\ WF_vars(monitor_pass)

NextAggregator ==
  \/ monitor_pass \/ deliver_cancel \/ task_ends
  \/ shutdown \/ deliver_loop_cancel
  \/ legacy_create \/ docker_start \/ docker_stop

SpecAggregator == InitDocker /\ [][NextAggregator]_vars


\* ======================================================================
\* Cluster volumes (interface/kubernetes_api/volume_api.py)
\* ======================================================================
\* os.path.dirname on the paths followed
dirname(p) ==
  CASE p = "/data" -> "/"
    [] p = "/data/a.txt" -> "/data"
    [] p = "/data/sub" -> "/data"
    [] p = "/data/sub/b.txt" -> "/data/sub"

RECURSIVE Ancestors(_)
Ancestors(p) == IF dirname(p) = "/" THEN {} ELSE {dirname(p)} \cup Ancestors(dirname(p))

\* what the cluster and the SFTP sidecar answer with during one call: the
\* <name>-svc service has a cluster IP, the <name>-sftp-secret secret can
\* be read, the SSH connection is established
SftpEnv == [service : BOOLEAN, secret : BOOLEAN, connect : BOOLEAN]

VolumeRes(ret, r, calls, out) == [ret |-> ret, remote |-> r, calls |-> calls, out |-> out]

\* the exception that leaves "with self._get_sftp_connection(...)" when
\* the body raised: the body's exception is thrown into the generator at
\* its yield, passes the finally that closes the connection and is caught
\* by the generator's own "except Exception", which raises ConnectionError
_get_sftp_connection(raised) ==
  IF raised = "none" THEN "none" ELSE "ConnectionError"

\* the calls before the body of the with statement, and whether the body
\* is entered; a missing file is recorded as a not-found answer of stat
SftpPrologue(name, e) ==
  LET svc == Call("read_namespaced_service", name, "", IF e.service THEN HTTP_OK ELSE HTTP_NOT_FOUND)
      sec == Call("read_namespaced_secret", name, "", IF e.secret THEN HTTP_OK ELSE HTTP_NOT_FOUND)
      con == Call("Connection.sftp", name, "", IF e.connect THEN HTTP_OK ELSE HTTP_ERROR)
  IN IF ~e.service THEN <<svc>>
     ELSE IF ~e.secret THEN <<svc, sec>>
     ELSE <<svc, sec, svc, con>>

SftpEntered(e) == e.service /\ e.secret /\ e.connect

\* sftp.remove(path) of a file, _rmdir_recursive(path) of a directory
Removed(path) ==
  [q \in Paths |-> IF q = path \/ path \in Ancestors(q) THEN NoEntry ELSE remote[q]]

KubernetesVolumeAPI_delete_file(name, path, e) ==
  LET pro == SftpPrologue(name, e)
      found == remote[path].kind # "absent"
      st == Call("sftp.stat", name, path, IF found THEN HTTP_OK ELSE HTTP_NOT_FOUND)
      body == IF found THEN "none" ELSE "FileNotFoundError"
      raised == _get_sftp_connection(body)
  IN IF ~SftpEntered(e) THEN VolumeRes("False", remote, pro, <<>>)
     ELSE IF raised = "none" THEN VolumeRes("True", Removed(path), Append(pro, st), <<body, raised>>)
     ELSE IF raised = "FileNotFoundError" THEN VolumeRes("True", remote, Append(pro, st), <<body, raised>>)
     ELSE VolumeRes("False", remote, Append(pro, st), <<body, raised>>)

\* write_file: the parent directories are made when stat does not find the
\* parent (that FileNotFoundError is handled inside the body), then the
\* file is opened "wb" and written
KubernetesVolumeAPI_write_file(name, path, data, e) ==
  LET pro == SftpPrologue(name, e)
      st == Call("sftp.stat", name, dirname(path),
                 IF remote[dirname(path)].kind # "absent" THEN HTTP_OK ELSE HTTP_NOT_FOUND)
      written == [q \in Paths |->
                    IF q = path THEN FileEntry(data)
                    ELSE IF q \in Ancestors(path) THEN DirEntry
                    ELSE remote[q]]
  IN IF ~SftpEntered(e) THEN VolumeRes("False", remote, pro, <<>>)
     ELSE VolumeRes("True", written, Append(pro, st), <<"none", _get_sftp_connection("none")>>)

VolumeStep(op, name, r) ==
  /\ backend = "k8s"
  /\ remote' = r.remote
  /\ last' = LastOut(op, name, 0, r.ret, r.calls, r.out)
  \* the finally of _get_sftp_connection has closed the connection the call
  \* opened, whether the body returned or raised
  /\ UNCHANGED <<lifecycleVars, servers, nextId, templates, routes, aggVars, sessions, reader, rooms, router_used_ports, environ, queue, logstream, metricstream>>

sftp_delete_file == \E path \in Paths, e \in SftpEnv :
  VolumeStep("sftp_delete_file", "s1", KubernetesVolumeAPI_delete_file("s1", path, e))

\* the model follows the reads of files that are not rewritten meanwhile
sftp_write_file == \E path \in FilePaths, data \in FileData, e \in SftpEnv :
  /\ ~(reader.state = "open" /\ reader.path = path)
  /\ VolumeStep("sftp_write_file", "s1", KubernetesVolumeAPI_write_file("s1", path, data, e))


\* int.to_bytes(8, "big")
RECURSIVE ShiftBytes(_, _)
ShiftBytes(n, k) == IF k = 0 THEN n ELSE ShiftBytes(n \div 256, k - 1)
to_bytes8(n) == [i \in 1..8 |-> ShiftBytes(n, 8 - i) % 256]

Min2(a, b) == IF a < b THEN a ELSE b

\* read(CHUNK_SIZE) that gives nothing when less than a whole chunk is left
read_chunk_whole(data, pos) ==
  IF pos + ChunkSize > Len(data) THEN <<>> ELSE SubSeq(data, pos + 1, pos + ChunkSize)

\* remote_file.read(CHUNK_SIZE) at offset pos
read_chunk(data, pos) == SubSeq(data, pos + 1, Min2(pos + ChunkSize, Len(data)))

\* read_file, first step of the generator: the calls before the with
\* statement, the connection, sftp.open(path, "rb") and the size prefix.
\* When open raises, the connection context is left at once and closes.
sftp_read_file_start == \E path \in FilePaths, e \in SftpEnv :
  LET pro == SftpPrologue("s1", e)
      found == remote[path].kind = "file"
      op == Call("sftp.open", "s1", path, IF found THEN HTTP_OK ELSE HTTP_NOT_FOUND)
  IN /\ backend = "k8s"
     /\ reader.state # "open"
     /\ IF SftpEntered(e) /\ found
        THEN /\ reader' = [state |-> "open", path |-> path, data |-> remote[path].data,
                           pos |-> 0, out |-> <<to_bytes8(Len(remote[path].data))>>]
             /\ sessions' = sessions + 1
             /\ last' = LastOut("sftp_read_file", "s1", 0, "Stream", Append(pro, op), <<>>)
        ELSE /\ reader' = [NoReader EXCEPT !.state = "done", !.path = path]
             /\ sessions' = sessions
             /\ last' = LastOut("sftp_read_file", "s1", 0, "EmptyStream",
                                IF SftpEntered(e) THEN Append(pro, op) ELSE pro, <<>>)
     /\ UNCHANGED <<lifecycleVars, servers, nextId, templates, routes, aggVars, remote, rooms, router_used_ports, environ, queue, logstream, metricstream>>

\* the consumer asks for the next item: one more chunk, or the empty read
\* that ends the loop, leaves the with statement and closes the connection
sftp_read_file_next ==
  LET chunk == read_chunk(reader.data, reader.pos) IN
  /\ reader.state = "open"
  /\ IF chunk # <<>>
     THEN /\ reader' = [reader EXCEPT !.pos = reader.pos + Len(chunk),
                                      !.out = Append(reader.out, chunk)]
          /\ sessions' = sessions
     ELSE /\ reader' = [reader EXCEPT !.state = "done"]
          /\ sessions' = sessions - 1
  /\ last' = LastOut("sftp_read_file_next", "s1", 0,
                     IF chunk # <<>> THEN "Chunk" ELSE "StopAsyncIteration", NoCall, <<>>)
  /\ UNCHANGED <<lifecycleVars, servers, nextId, templates, routes, aggVars, remote, rooms, router_used_ports, environ, queue, logstream, metricstream>>

\* the consumer is cancelled or drops the generator: GeneratorExit is
\* raised at the yield and the finally of _get_sftp_connection closes
sftp_read_file_aclose ==
  /\ reader.state = "open"
  /\ reader' = [reader EXCEPT !.state = "closed"]
  /\ sessions' = sessions - 1
  /\ last' = LastOut("sftp_read_file_aclose", "s1", 0, "None", NoCall, <<>>)
  /\ UNCHANGED <<lifecycleVars, servers, nextId, templates, routes, aggVars, remote, rooms, router_used_ports, environ, queue, logstream, metricstream>>

\* docker_interface.docker_container_logs_tail: the client is made with
\* aiodocker.Docker() outside any with statement and closed only on the
\* last line
docker_container_logs_tail(name, ok) ==
  IF name \in banned_container_access
  THEN [ret |-> "HTTP403", calls |-> NoCall, sessions |-> sessions]
  ELSE LET c == Call("containers.get", name, "", engine_status(name, ok)) IN
       IF c.status # HTTP_OK
       THEN [ret |-> "HTTP404", calls |-> <<c>>, sessions |-> sessions + 1]
       ELSE [ret |-> "Lines", calls |-> <<c, Call("container.log", name, "", HTTP_OK)>>,
             sessions |-> (sessions + 1) - 1]

logs_tail == \E n \in Names, ok \in BOOLEAN :
  LET r == docker_container_logs_tail(n, ok) IN
  /\ backend = "docker"
  /\ sessions < MaxSessions
  /\ sessions' = r.sessions
  /\ last' = Last("logs_tail", n, r.ret, r.calls)
  /\ UNCHANGED <<lifecycleVars, servers, nextId, templates, routes, aggVars, remote, reader, rooms, router_used_ports, environ, queue, logstream, metricstream>>

\* os.path.basename on the paths followed
basename(p) ==
  CASE p = "/data" -> "data"
    [] p = "/data/a.txt" -> "a.txt"
    [] p = "/data/sub" -> "sub"
    [] p = "/data/sub/b.txt" -> "b.txt"

\* the names of the entries of one kind directly under path
children(fs, path, kind) ==
  {basename(q) : q \in {x \in Paths : dirname(x) = path /\ fs[x].kind = kind}}

\* a DirList: what the tuple holds at its first and at its second position,
\* the order within a list left aside
DirList(first, second) == [ret |-> "DirList", first |-> first, second |-> second]
NoDirList == [ret |-> "None", first |-> {}, second |-> {}]

\* docker_list_directory: find -type f and find -type d with -printf "%P\n",
\* split into names, returned as (files, dirs); the starting directory
\* prints an empty name, which split() drops; find on a missing path
\* prints nothing to stdout
docker_DirList(fs, path, ok) ==
  IF ~ok THEN NoDirList
  ELSE IF fs[path].kind # "dir" THEN DirList({}, {})
  ELSE DirList(children(fs, path, "file"), children(fs, path, "dir"))

\* KubernetesVolumeAPI.list_directory: listdir_attr, directories get a
\* trailing "/", returned as (directories, files); None when the SFTP
\* connection cannot be made or the path is not a directory
k8s_DirList(fs, path, e) ==
  IF ~SftpEntered(e) \/ fs[path].kind # "dir" THEN NoDirList
  ELSE DirList({d \o "/" : d \in children(fs, path, "dir")}, children(fs, path, "file"))

ListablePaths == {"/data", "/data/sub"}

\* the same directory listed through the engine implementation and through
\* the cluster implementation
list_directory_both == \E path \in ListablePaths, ok \in BOOLEAN, e \in SftpEnv :
  /\ last' = LastOut("list_directory", "s1", 0, path, NoCall,
                     <<docker_DirList(remote, path, ok), k8s_DirList(remote, path, e)>>)
  /\ UNCHANGED <<lifecycleVars, nonLifecycleVars>>

NextDirList == sftp_write_file \/ sftp_delete_file \/ list_directory_both

SpecDirList == InitK8s /\ [][NextDirList]_vars

NextVolume ==
  \/ sftp_delete_file \/ sftp_write_file
  \/ sftp_read_file_start \/ sftp_read_file_next \/ sftp_read_file_aclose

\* the archive the engine sends for a file: header, data, padding to a
\* whole block and an empty block
Zeros(n) == [i \in 1..n |-> 0]
tar_archive(data) ==
  Zeros(TarOffset) \o data
    \o Zeros((TarOffset - (Len(data) % TarOffset)) % TarOffset) \o Zeros(TarOffset)

\* the loop of docker_read_file: buffer.read(min(4096, offset + file_size
\* - buffer.tell())) until it returns b""
RECURSIVE docker_read_chunks(_, _, _)
docker_read_chunks(buffer, pos, end) ==
  LET n == Min2(ChunkSize, end - pos)
      chunk == SubSeq(buffer, pos + 1, Min2(pos + n, Len(buffer)))
  IN IF chunk = <<>> THEN <<>>
     ELSE <<chunk>> \o docker_read_chunks(buffer, pos + n, end)

\* everything docker_read_file yields for a file with these bytes
docker_read_file_items(data) ==
  <<to_bytes8(Len(data))>>
    \o docker_read_chunks(tar_archive(data), TarOffset, TarOffset + Len(data))

\* docker_read_file consumed to its end; a DockerError of get_archive is
\* swallowed by docker_container and the stream is empty
volume_read_file_stream ==
  \E n \in Names, path \in FilePaths, data \in FileData, ok \in BOOLEAN :
  LET a == Call("container.get_archive", n, path, engine_status(n, ok)) IN
  /\ backend = "docker"
  /\ reader' = [state |-> "done", path |-> path, data |-> data, pos |-> Len(data),
                out |-> IF a.status = HTTP_OK THEN docker_read_file_items(data) ELSE <<>>]
  /\ last' = Last("docker_read_file", n,
                  IF a.status = HTTP_OK THEN "Stream" ELSE "EmptyStream", <<a>>)
  /\ UNCHANGED <<lifecycleVars, servers, nextId, templates, routes, aggVars, remote, sessions, rooms, router_used_ports, environ, queue, logstream, metricstream>>

NextReadFile ==
  \/ sftp_write_file \/ sftp_delete_file
  \/ sftp_read_file_start \/ sftp_read_file_next \/ sftp_read_file_aclose
  \/ volume_read_file_stream \/ legacy_create

\* the consumer of a stream keeps asking for the next item until the
\* stream ends or it closes the stream
SpecReadFile == Init /\ [][NextReadFile]_vars /\ WF_vars(sftp_read_file_next)

NextSessions ==
  \/ sftp_delete_file \/ sftp_write_file
  \/ sftp_read_file_start \/ sftp_read_file_next \/ sftp_read_file_aclose
  \/ logs_tail \/ legacy_create \/ docker_start

SpecSessions == Init /\ [][NextSessions]_vars

SpecVolume == InitK8s /\ [][NextVolume]_vars


\* ======================================================================
\* Socket subscribers (webservice.py subscribe / unsubscribe)
\* ======================================================================
\* unsubscribe with every subscriber of the rooms of sid removed
leave_rooms_everyone(sid) ==
  [o \in Sids |-> IF rooms[o] \cap rooms[sid] # {} THEN {} ELSE rooms[o]]

\* unsubscribe: leave_room(sid, room) for every room of sid
leave_rooms(sid) == [rooms EXCEPT ![sid] = {}]

\* subscribe(sid, "<node>+<container>"): a banned container makes
\* docker_container_name_exists raise; for any other name its answer is
\* not None, so the subscriber leaves its rooms and enters the new one
subscribe == \E sid \in Sids, room \in RoomNames :
  LET r == docker_container_name_exists(room.container) IN
  /\ backend = "docker"
  /\ rooms' = IF Raised(r.ret) THEN rooms
              ELSE [leave_rooms(sid) EXCEPT ![sid] = {room}]
  /\ last' = Last("subscribe", sid, r.ret, r.calls)
  /\ UNCHANGED <<lifecycleVars, servers, nextId, templates, routes, aggVars, volVars, router_used_ports, environ, queue, logstream, metricstream>>

unsubscribe == \E sid \in Sids :
  /\ backend = "docker"
  /\ rooms' = leave_rooms(sid)
  /\ last' = Last("unsubscribe", sid, "None", NoCall)
  /\ UNCHANGED <<lifecycleVars, servers, nextId, templates, routes, aggVars, volVars, router_used_ports, environ, queue, logstream, metricstream>>

\* the socket server takes a client that disconnects out of its rooms
disconnect == \E sid \in Sids :
  /\ backend = "docker"
  /\ rooms[sid] # {}
  /\ rooms' = leave_rooms(sid)
  /\ last' = Last("disconnect", sid, "None", NoCall)
  /\ UNCHANGED <<lifecycleVars, servers, nextId, templates, routes, aggVars, volVars, router_used_ports, environ, queue, logstream, metricstream>>

NextSubscribers ==
  \/ subscribe \/ unsubscribe \/ disconnect
  \/ monitor_pass \/ deliver_cancel \/ task_ends
  \/ legacy_create \/ docker_start \/ docker_stop

SpecSubscribers == InitDocker /\ [][NextSubscribers]_vars

\* from the streams to the subscribers: the passes, the producers, the
\* consumer and clients entering rooms
NextDelivery ==
  \/ subscribe \/ monitor_pass \/ task_puts \/ consumer_emit
  \/ legacy_create \/ docker_start

SpecDelivery == InitDocker /\ [][NextDelivery]_vars


\* ======================================================================
\* Cluster log streaming (interface/kubernetes_api/streaming_api.py)
\* ======================================================================
LogStreamStep(op, ls) ==
  /\ backend = "k8s"
  /\ logstream' = ls
  /\ last' = Last(op, "s1", "", NoCall)
  /\ UNCHANGED <<lifecycleVars, servers, nextId, templates, routes, aggVars, volVars, rooms,
                 router_used_ports, environ, queue, metricstream>>

\* the end of watch_logs: the finally block stops the watch and puts the
\* marker, then the thread returns
watch_finally(ls) ==
  [ls EXCEPT !.thread = "done", !.log_queue = Append(@, EndOfStream)]

\* watch_logs: w.stream hands the next line of the pod's log to the thread,
\* which leaves the loop if stop_event is set and puts the line otherwise
watch_line ==
  /\ logstream.thread = "running"
  /\ logstream.watched < MaxLines
  /\ LogStreamStep("watch_line",
       IF logstream.stop_event
       THEN watch_finally([logstream EXCEPT !.watched = @ + 1])
       ELSE [logstream EXCEPT !.watched = @ + 1,
                              !.log_queue = Append(@, logstream.watched + 1)])

\* watch_logs: w.stream ends or raises: the pod's log is closed, the API
\* fails, or no byte arrives within _request_timeout
watch_ends ==
  /\ logstream.thread = "running"
  /\ LogStreamStep("watch_ends", watch_finally(logstream))

\* the polling loop hands log_queue.get(timeout=0.1) to the default
\* executor and awaits it under wait_for(timeout=0.5)
poll_submit ==
  /\ logstream.consumer = "polling"
  /\ logstream.job = "none"
  /\ LogStreamStep("poll_submit", [logstream EXCEPT !.job = "pending"])

\* executor.shutdown(wait) in the generator's finally: with wait the
\* calling thread, which is the event loop's, stays in shutdown until
\* watch_logs has returned
executor_shutdown_waiting(state, thread) ==
  IF thread = "running" THEN "blocked" ELSE state

\* executor.shutdown(wait=False) returns at once
executor_shutdown(state, thread) == state

\* the read returns within wait_for's timeout: Empty makes the loop sleep
\* and go on, the marker ends the sequence (break, then the finally
\* block), a line is yielded
poll_returns ==
  /\ logstream.consumer = "polling"
  /\ logstream.job = "pending"
  /\ LogStreamStep("poll_returns",
       IF logstream.log_queue = <<>>
       THEN [logstream EXCEPT !.job = "none"]
       ELSE IF Head(logstream.log_queue) = EndOfStream
       THEN [logstream EXCEPT !.job = "none", !.log_queue = Tail(@),
                              !.stop_event = TRUE,
                              !.consumer = executor_shutdown("ended", logstream.thread)]
       ELSE [logstream EXCEPT !.job = "none", !.log_queue = Tail(@),
                              !.yielded = Append(@, Head(logstream.log_queue))])

\* wait_for's timeout passes before the read has returned, the read having
\* waited for a free thread of the default executor: TimeoutError is
\* caught, the loop sleeps and goes on, and the read is left to run
poll_times_out ==
  /\ logstream.consumer = "polling"
  /\ logstream.job = "pending"
  /\ logstream.abandoned < MaxAbandoned
  /\ LogStreamStep("poll_times_out",
       [logstream EXCEPT !.job = "none", !.abandoned = @ + 1])

\* a read that nobody awaits any more runs: what it takes from the queue
\* is dropped with its future
abandoned_read ==
  /\ logstream.abandoned > 0
  /\ LogStreamStep("abandoned_read",
       [logstream EXCEPT !.abandoned = @ - 1,
                         !.log_queue = IF @ = <<>> THEN @ ELSE Tail(@)])

\* the task consuming the sequence is cancelled while the generator awaits:
\* CancelledError is raised at the await, the handler sets stop_event and
\* re-raises, the finally block shuts the executor down; a read in flight
\* is left to run
cancel_stream ==
  /\ logstream.consumer = "polling"
  /\ LogStreamStep("cancel_stream",
       [logstream EXCEPT !.stop_event = TRUE,
                         !.job = "none",
                         !.abandoned = @ + (IF logstream.job = "pending" THEN 1 ELSE 0),
                         !.consumer = executor_shutdown("cancelled", logstream.thread)])

NextLogStream ==
  \/ watch_line \/ watch_ends \/ poll_submit \/ poll_returns \/ poll_times_out
  \/ abandoned_read \/ cancel_stream

\* the watch's request carries _request_timeout: the blocking iteration
\* always returns to watch_logs, with a line, the end or an error
SpecLogStream ==
  InitK8s /\ [][NextLogStream]_vars /\ WF_vars(watch_line \/ watch_ends)

\* -------------------------------------------------------- stream_metrics
MaxSamples == 2

\* the usage strings metrics-server is taken to report
CpuStrings == {"", "0", "100m", "1", "x"}
MemoryStrings == {"", "0", "50Mi", "1Gi", "x"}

\* _parse_cpu: percent of one core; 0 for an empty or unparsable string
parse_cpu(cpu_str) ==
  CASE cpu_str = "" -> 0
    [] cpu_str = "0" -> 0
    [] cpu_str = "100m" -> 10
    [] cpu_str = "1" -> 100
    [] cpu_str = "x" -> 0

\* _parse_memory: MB; 0 for an empty or unparsable string
parse_memory(memory_str) ==
  CASE memory_str = "" -> 0
    [] memory_str = "0" -> 0
    [] memory_str = "50Mi" -> 50
    [] memory_str = "1Gi" -> 1024
    [] memory_str = "x" -> 0

\* models.Metrics
Metrics(cpu, memory, disk, network) ==
  [cpu |-> cpu, memory |-> memory, disk |-> disk, network |-> network]

\* a sample that reports the memory figure as the disk figure as well
UsageSample_disk_reported(cpu_str, memory_str) ==
  Metrics(parse_cpu(cpu_str), parse_memory(memory_str), parse_memory(memory_str), 0)

\* the sample yielded for a metrics-server answer with containers
UsageSample(cpu_str, memory_str) ==
  Metrics(parse_cpu(cpu_str), parse_memory(memory_str), 0, 0)

\* the sample yielded after an ApiException of the metrics endpoint
ErrorSample == Metrics(0, 0, 0, 0)

\* what one get_namespaced_custom_object call can come to: an answer with
\* containers, an answer without, an ApiException (404 or another status)
\* or an exception of another class, which the loop does not catch
MetricsAnswers == {"usage", "no_containers", "HTTP404", "HTTP500", "raised"}

MetricStreamStep(op, ret, ms) ==
  /\ backend = "k8s"
  /\ metricstream' = ms
  /\ last' = Last(op, "s1", ret, NoCall)
  /\ UNCHANGED <<lifecycleVars, servers, nextId, templates, routes, aggVars, volVars, rooms,
                 router_used_ports, environ, queue, logstream>>

\* _find_pod: the generator returns without a sample when no pod is found
metrics_find_pod == \E found \in BOOLEAN :
  /\ metricstream.pos = "find_pod"
  /\ MetricStreamStep("find_pod", IF found THEN "pod" ELSE "None",
       [metricstream EXCEPT !.pos = IF found THEN "polling" ELSE "returned"])

\* one round of the while loop up to the sleep
metrics_poll == \E answer \in MetricsAnswers, c \in CpuStrings, m \in MemoryStrings :
  /\ metricstream.pos = "polling"
  /\ Len(metricstream.yielded) < MaxSamples
  /\ answer # "usage" => (c = "" /\ m = "")
  /\ MetricStreamStep("metrics_poll", answer,
       CASE answer = "usage" ->
              [metricstream EXCEPT !.pos = "sleeping",
                                   !.yielded = Append(@, UsageSample(c, m))]
         [] answer = "no_containers" ->
              [metricstream EXCEPT !.pos = "sleeping"]
         [] answer \in {"HTTP404", "HTTP500"} ->
              [metricstream EXCEPT !.pos = "sleeping",
                                   !.yielded = Append(@, ErrorSample)]
         [] answer = "raised" ->
              [metricstream EXCEPT !.pos = "raised"])

\* asyncio.sleep(1) is over
metrics_sleep_over ==
  /\ metricstream.pos = "sleeping"
  /\ MetricStreamStep("sleep", "", [metricstream EXCEPT !.pos = "polling"])

\* CancelledError delivered at one of the awaits of the loop
cancel_metrics ==
  /\ metricstream.pos \in {"polling", "sleeping"}
  /\ MetricStreamStep("cancel", "CancelledError", [metricstream EXCEPT !.pos = "cancelled"])

NextMetricStream ==
  metrics_find_pod \/ metrics_poll \/ metrics_sleep_over \/ cancel_metrics

SpecMetricStream == InitK8s /\ [][NextMetricStream]_vars

\* ======================================================================
\* Properties
\* ======================================================================
LifecycleOps == {"start", "stop", "remove", "exists", "is_running", "health_status", "command"}
VolumeOps == {"list_directory", "read_file", "write_file", "delete_file"}

\* C2: on the engine backend every lifecycle and volume operation called
\* with a name of banned_container_access is rejected with Forbidden (403)
\* and makes no backend call.
C2_BannedRejectedBeforeBackend ==
  (/\ backend = "docker"
   /\ last.op \in LifecycleOps \cup VolumeOps
   /\ last.name \in banned_container_access)
  => (last.ret = "HTTP403" /\ last.calls = NoCall)

\* the custom-resource call of the last cluster lifecycle call said not-found
CRNotFound ==
  /\ backend = "k8s"
  /\ last.op \in {"start", "stop", "remove", "exists", "is_running"}
  /\ Len(last.calls) >= 1
  /\ last.calls[1].status = HTTP_NOT_FOUND

DeploymentApi(op) ==
  CASE op = "start" -> "patch_namespaced_deployment_scale"
    [] op = "stop" -> "patch_namespaced_deployment_scale"
    [] op = "remove" -> "delete_namespaced_deployment"
    [] OTHER -> "read_namespaced_deployment"

\* the fallback was taken: second call is the Deployment call for the same
\* name, and stop asks for zero replicas and leaves the Deployment at zero
FallbackTaken ==
  /\ Len(last.calls) = 2
  /\ last.calls[2].api = DeploymentApi(last.op)
  /\ last.calls[2].name = last.name
  /\ (last.op = "stop" =>
        /\ last.calls[2].arg = "replicas=0"
        /\ (last.calls[2].status = HTTP_OK =>
              /\ last.ret = "True"
              /\ deployment[last.name].replicas = 0))

\* C4 as stated: after a not-found custom-resource call every one of start,
\* stop, remove, exists, is_running falls back to the Deployment call and
\* returns true exactly when the Deployment call succeeds.
C4_FallbackTrueIffDeploymentCallSucceeds ==
  CRNotFound =>
    /\ FallbackTaken
    /\ (last.ret = "True" <=> last.calls[2].status = HTTP_OK)

\* C4 amended: start, stop, remove and exists return true exactly when the
\* Deployment call succeeds; is_running returns true exactly when the
\* Deployment call succeeds and the Deployment has an available replica.
C4_FallbackContract ==
  CRNotFound =>
    /\ FallbackTaken
    /\ (last.op # "is_running" =>
          (last.ret = "True" <=> last.calls[2].status = HTTP_OK))
    /\ (last.op = "is_running" =>
          (last.ret = "True" <=> (/\ last.calls[2].status = HTTP_OK
                                  /\ deployment[last.name].available > 0)))

C4_Witness ==
  /\ CRNotFound
  /\ last.op = "stop"
  /\ last.name = "legacy1"
  /\ last.calls[2] = Call("patch_namespaced_deployment_scale", "legacy1", "replicas=0", HTTP_OK)
  /\ last.ret = "True"
  /\ deployment["legacy1"].replicas = 0

\* C7: remove of a workload the backend does not have (every backend call
\* answers not-found) returns true, on the engine and on the cluster.
C7_RemoveAbsentSucceeds ==
  (/\ last.op \in {"remove", "docker_container_remove"}
   /\ last.calls # NoCall
   /\ \A i \in 1..Len(last.calls) : last.calls[i].status = HTTP_NOT_FOUND)
  => last.ret = "True"

IsAscending(q) == \A i \in 1..Len(q), j \in 1..Len(q) : i < j => q[i] < q[j]

FreePorts == {p \in SM_PORT_START..SM_PORT_END :
                \A s \in servers : \A i \in 1..Len(s.port) : s.port[i] # p}

\* C5: unused_port(n) returns, in ascending order, the n lowest ports of
\* the configured range that no server row records (all of them when fewer
\* than n are free), and never a recorded port; with the range
\* SM_PORT_START..SM_PORT_START+2 free and n = 3 it returns the three
\* ports, and with only SM_PORT_START+1 recorded and n = 2 the two others.
C5_UnusedPortLowestFree ==
  last.op = "unused_port" =>
    /\ IsAscending(last.out)
    /\ Range(last.out) \subseteq FreePorts
    /\ \A p \in Range(last.out), q \in FreePorts \ Range(last.out) : p < q
    /\ Len(last.out) = IF last.arg <= Cardinality(FreePorts) THEN last.arg
                       ELSE Cardinality(FreePorts)
    /\ (last.arg = 3 /\ servers = {} =>
          last.out = <<SM_PORT_START, SM_PORT_START + 1, SM_PORT_START + 2>>)
    /\ ((last.arg = 2 /\ (\A s \in servers : s.port = <<SM_PORT_START + 1>>)) =>
          last.out = IF servers = {} THEN <<SM_PORT_START, SM_PORT_START + 1>>
                     ELSE <<SM_PORT_START, SM_PORT_START + 2>>)

C5_Witness ==
  /\ last.op = "unused_port"
  /\ \E s \in servers : s.port = <<SM_PORT_START + 1>>
  /\ Cardinality(servers) = 1
  /\ last.arg = 2
  /\ last.out = <<SM_PORT_START, SM_PORT_START + 2>>

RouteIds == {r.id : r \in routes}

\* C10: a successful start_server leaves a route registered under the
\* workload's name and a stop_server leaves none.
C10_RouteFollowsStartStop ==
  /\ (last.op = "start_server" /\ last.ret = "True") => last.name \in RouteIds
  /\ (last.op = "stop_server" /\ last.ret = "True") => last.name \notin RouteIds

\* a precondition of open_ports fails for the server row with this id
OpenPortsPreconditionFails(id) ==
  \/ get_server(id) = {}
  \/ \E s \in get_server(id) :
       \/ ~WorkloadExists(s.container_name)
       \/ s.template_id \notin DOMAIN templates
       \/ templates[s.template_id] = <<>>
       \/ s.port = <<>>
       \/ Len(templates[s.template_id]) # Len(s.port)

\* C9: open_ports returns false and makes no proxy call when the instance
\* is None, the workload does not exist, the template declares no port,
\* the instance holds no port, or the two lists differ in length.
C9_OpenPortsRefusesWithoutWiring ==
  (last.op = "open_ports" /\ OpenPortsPreconditionFails(last.arg))
  => (last.ret = "False" /\ last.calls = NoCall)

\* live tasks of one kind working for one container
LiveTasks(n, k) == (IF tasks[n].present /\ tasks[n].live[k] THEN 1 ELSE 0) + detached[n][k].live

\* the registry entry of n and both its tasks go in this step
PairDiscarded(n) ==
  /\ tasks[n].present
  /\ ~tasks'[n].present
  /\ \A k \in Kinds :
       tasks[n].live[k] => detached'[n][k].cancelling = detached[n][k].cancelling + 1

DeleteOfAbsentPath ==
  /\ last.op = "sftp_delete_file"
  /\ Len(last.calls) > 0
  /\ last.calls[Len(last.calls)].api = "sftp.stat"
  /\ last.calls[Len(last.calls)].status = HTTP_NOT_FOUND

\* C8: on the cluster backend delete_file of a path that does not exist
\* returns true.
C8_DeleteAbsentPathSucceeds == DeleteOfAbsentPath => last.ret = "True"

\* the last backend call of the last operation failed
BackendCallFailed ==
  /\ last.op \in LifecycleOps \cup VolumeOps
       \cup {"create", "docker_container_create", "docker_container_remove"}
  /\ last.calls # NoCall
  /\ last.calls[Len(last.calls)].status # HTTP_OK

\* C11: a lifecycle or volume operation whose backend call fails returns
\* false or nothing, or raises the not-found condition (404); it neither
\* lets the backend's exception out nor reports success.
C11_FailureIsFalseOrNotFound ==
  BackendCallFailed => last.ret \in {"False", "None", "EmptyStream", "HTTP404"}

\* C12: a backend session is open only while a streamed sequence is being
\* consumed; after every call that has returned, raised or been cancelled
\* no session is left open.
C12_NoSessionOutlivesItsCall ==
  sessions = (IF reader.state = "open" THEN 1 ELSE 0)

\* the set of registered names, or the cancellations requested, change
RegistryModified ==
  \/ \E n \in Names : tasks'[n].present # tasks[n].present
  \/ \E n \in Names, k \in Kinds : detached'[n][k].cancelling > detached[n][k].cancelling

\* C13: Providers are put into and popped from the registry, and their
\* tasks cancelled, in steps of the monitor pass only: never in a step of a
\* stream task or of a subscriber.
C13_OnlyThePassModifiesRegistry ==
  [][RegistryModified => last'.op = "monitor_pass"]_vars

\* C14: unsubscribe and disconnect of a subscriber empty that subscriber's
\* rooms and change nothing else: not the registry, not the tasks, not the
\* rooms of the other subscribers.
C14_UnsubscribeOnlyLeavesRooms ==
  [][last'.op \in {"unsubscribe", "disconnect"} =>
       /\ rooms'[last'.name] = {}
       /\ \A o \in Sids \ {last'.name} : rooms'[o] = rooms[o]
       /\ tasks' = tasks
       /\ detached' = detached]_vars

\* the last subscriber of s1's room has left and another subscriber is
\* still in a room, while the pair of s1 is registered and live
C14_Witness ==
  /\ last.op = "unsubscribe"
  /\ \A sid \in Sids : Room("01", "s1") \notin rooms[sid]
  /\ \E sid \in Sids : rooms[sid] # {}
  /\ tasks["s1"].present
  /\ \A k \in Kinds : tasks["s1"].live[k]

\* the last call is a health_status answered from the pods of the workload
PodFallback ==
  /\ backend = "k8s"
  /\ last.op = "health_status"
  /\ Len(last.calls) = 2
  /\ last.calls[2].status = HTTP_OK
  /\ last.out # <<>>

PodHealthy(s) == s = "ready"
PodUnhealthy(s) == s \in {"not_ready", "terminated"}
PodStarting(s) == s = "waiting"

\* C15: on the pod fallback health_status answers for all the pods of the
\* workload: healthy when every pod is healthy, the unhealthy condition
\* when any pod is unhealthy, and otherwise starting when a pod is starting.
C15_HealthAggregatesAllPods ==
  PodFallback =>
    LET pods == last.out
        P == {pods[i] : i \in 1..Len(pods)}
    IN /\ (\A s \in P : PodHealthy(s)) => last.ret = "Healthy"
       /\ (\E s \in P : PodUnhealthy(s)) => last.ret \in {"Running but not ready", "Terminated"}
       /\ ((\A s \in P : ~PodUnhealthy(s)) /\ (\E s \in P : PodStarting(s))) => last.ret = "Waiting"

RECURSIVE Flatten(_)
Flatten(ss) == IF ss = <<>> THEN <<>> ELSE Head(ss) \o Flatten(Tail(ss))

ExistsAnswered ==
  /\ backend = "docker"
  /\ last.op \in {"exists", "docker_container_name_exists"}
  /\ last.ret \in {"True", "False"}
  /\ \A i \in 1..Len(last.calls) : last.calls[i].status # HTTP_ERROR

\* C17: on the engine backend exists(name) is false while the engine has
\* no container of that name, and true once a create of that name has
\* returned true.
C17_ExistsFalseBeforeTrueAfterCreate ==
  /\ ExistsAnswered => ((last.ret = "True") <=> (containers[last.name] # "absent"))
  /\ (backend = "docker" /\ last.op \in {"create", "docker_container_create"}
        /\ last.ret = "True") => containers[last.name] # "absent"


\* the router holds every port of the range
PoolExhausted == \A p \in SM_PORT_START..SM_PORT_END : p \in router_used_ports

\* the recorded assignments cover the range
RecordsExhausted == FreePorts = {}

ExhaustionLogged(l) == \E i \in 1..Len(l.calls) : l.calls[i].api = "sm_logger.error"

\* C18: when the port range is exhausted, unused_port (asked for at least
\* one port) and allocate_port return an empty or absent result and log the
\* exhaustion, never raise, and leave the set of held ports unchanged
C18_ExhaustionEmptyLoggedUnchanged ==
  [][ /\ (last'.op = "allocate_port" /\ PoolExhausted) =>
          /\ last'.out = <<>>
          /\ ~Raised(last'.ret)
          /\ ExhaustionLogged(last')
          /\ router_used_ports' = router_used_ports
      /\ (last'.op = "unused_port" /\ last'.arg > 0 /\ RecordsExhausted) =>
          /\ last'.out = <<>>
          /\ ~Raised(last'.ret)
          /\ ExhaustionLogged(last')
          /\ servers' = servers
    ]_vars

\* the same for the router's allocate_port alone
C18_PoolExhaustionEmptyLoggedUnchanged ==
  [][ (last'.op = "allocate_port" /\ PoolExhausted) =>
          /\ last'.out = <<>>
          /\ ~Raised(last'.ret)
          /\ ExhaustionLogged(last')
          /\ router_used_ports' = router_used_ports
    ]_vars

\* allocate_port has answered on an exhausted pool
C18_PoolWitness ==
  /\ last.op = "allocate_port" /\ last.ret = "None" /\ PoolExhausted

\* unused_port has answered on exhausted records
C18_RecordsWitness ==
  /\ last.op = "unused_port" /\ last.arg > 0 /\ RecordsExhausted


SelectorOps == {"create", "start", "stop", "exists"}

\* the backend type the configuration calls for
SelectedByConfiguration ==
  IF environ.kubernetes /\ environ.SM_K8S \in {"0", "1"} THEN "k8s"
  ELSE IF environ.aiodocker THEN "docker"
  ELSE "ImportError"

C19_ImportErrorWitness ==
  /\ last.op \in SelectorOps /\ last.ret = "ImportError"


\* the status the proxy gave to the POST of the last call, if it was sent
PostAnsweredOK ==
  \E i \in 1..Len(last.calls) :
    /\ last.calls[i].api = "POST /config/apps/layer4/servers"
    /\ last.calls[i].name = last.name
    /\ last.calls[i].status = HTTP_OK

\* C20: add_caddy_route never raises; it returns true exactly when the
\* proxy's admin API answers OK to the registration keyed by the workload
\* name, and false for any other status or a failed request
C20_AddRouteTrueIffProxyOK ==
  last.op = "add_caddy_route" =>
    /\ last.ret \in {"True", "False"}
    /\ (last.ret = "True") <=> PostAnsweredOK

\* the same for the calls that pass a mapping and get a JSON body back
C20_AddRouteTrueIffProxyOKJsonBody ==
  (last.op = "add_caddy_route" /\ last.arg > 0 /\ last.out # <<"ok_no_json">>) =>
    /\ last.ret \in {"True", "False"}
    /\ (last.ret = "True") <=> PostAnsweredOK

C20_Witness ==
  /\ last.op = "add_caddy_route" /\ last.ret = "True" /\ PostAnsweredOK
  /\ \E r \in routes : r.id = last.name


\* tasks alive for slot k of workload n, in the registry or detached
TaskCount(n, k) == (IF tasks[n].present /\ tasks[n].live[k] THEN 1 ELSE 0) + detached[n][k].live

MessagesTagged ==
  \A i \in 1..Len(queue) :
    /\ queue[i].room = Room("01", queue[i].data)
    /\ queue[i].event_type \in {"push_log", "push_metric"}
    /\ queue[i].data \notin banned_container_access

\* C21: in each reconciliation pass every running workload that is not
\* deny-listed and has no registry entry gets exactly one log task and one
\* metric task, which push tagged messages into the one bounded queue; no
\* task is ever started for a deny-listed workload
C21_PassStartsOnePairPerNewWorkload ==
  /\ [](\A n \in banned_container_access \cap Names :
          ~tasks[n].present /\ \A k \in Kinds : TaskCount(n, k) = 0)
  /\ [](MessagesTagged /\ Len(queue) <= QueueMax)
  /\ [][last'.op = "monitor_pass" =>
         \A n \in running_containers \ banned_container_access :
           ~tasks[n].present =>
             /\ tasks'[n].present
             /\ \A k \in Kinds : (IF tasks'[n].live[k] THEN 1 ELSE 0) + detached'[n][k].live = 1
             /\ {SlotCommand(k) : k \in Kinds} = {"push_log", "push_metric"}
      ]_vars

\* a pass has started the pair of s1 while a deny-listed container runs,
\* and one of the pair has put a message on the queue
C21_Witness ==
  /\ tasks["s1"].present
  /\ containers["postgres"] = "running"
  /\ \E i \in 1..Len(queue) : queue[i].data = "s1"


\* a running workload whose registry entry holds a task that has ended
DeadEntry(n) ==
  /\ containers[n] = "running"
  /\ tasks[n].present
  /\ \E k \in Kinds : ~tasks[n].live[k]

\* C22: when a task of a workload that stays running ends on its own, a
\* later reconciliation pass starts streaming for the workload again
C22_EndedTaskRestarted ==
  \A n \in K8sNames : DeadEntry(n) ~> ~DeadEntry(n)

\* a pass has run over a running workload whose task had ended, and left
\* the entry as it was
C22_DeadEntryAfterPass ==
  /\ last.op = "monitor_pass" /\ DeadEntry("s1")


\* C23: cancelling a followed log stream ends the sequence at once and
\* signals the watch thread, the event loop is never blocked, and the
\* thread eventually terminates
C23_CancelPromptThreadStops ==
  /\ [](logstream.consumer # "blocked")
  /\ [][last'.op = "cancel_stream" =>
          logstream'.consumer = "cancelled" /\ logstream'.stop_event]_vars
  /\ (logstream.consumer = "cancelled" ~> logstream.thread = "done")

\* the stream was cancelled while the watch was still running; the thread
\* has since met stop_event at its next line and left
C23_Witness ==
  /\ logstream.consumer = "cancelled"
  /\ logstream.thread = "done"
  /\ last.op = "watch_line"

\* the lines 1..n in the order the thread enqueued them
Lines(n) == [i \in 1..n |-> i]

IsPrefix(a, b) == Len(a) <= Len(b) /\ \A i \in 1..Len(a) : a[i] = b[i]

\* C24: with follow=true every line enqueued before the marker is yielded
\* exactly once and in order, and the sequence ends once the marker has
\* been dequeued
C24_LinesYieldedOnceInOrder ==
  /\ [](logstream.consumer = "polling" =>
          logstream.yielded \o SelectSeq(logstream.log_queue, LAMBDA x : x # EndOfStream)
            = Lines(Len(logstream.yielded)
                    + Len(SelectSeq(logstream.log_queue, LAMBDA x : x # EndOfStream))))
  /\ [](logstream.consumer = "ended" => IsPrefix(logstream.yielded, Lines(MaxLines)))
  /\ ((logstream.thread = "done" /\ logstream.consumer = "polling")
        ~> logstream.consumer # "polling")


\* the custom-resource call of the last cluster lifecycle call failed with
\* a status other than not-found
CRFailedOtherwise ==
  /\ backend = "k8s"
  /\ last.op \in {"start", "stop", "remove", "exists", "is_running"}
  /\ Len(last.calls) >= 1
  /\ last.calls[1].status \notin {HTTP_OK, HTTP_NOT_FOUND}

\* C25: the Deployment fallback is attempted only after a not-found
\* custom-resource call: on any other custom-resource API error start,
\* stop, remove, exists and is_running return false and make no
\* Deployment call
C25_FallbackOnlyOnNotFound ==
  /\ CRFailedOtherwise => (last.ret = "False" /\ Len(last.calls) = 1)
  /\ (backend = "k8s" /\ last.op \in {"start", "stop", "remove", "exists", "is_running"}
       /\ Len(last.calls) > 1) => last.calls[1].status = HTTP_NOT_FOUND

\* start of a workload that has a Deployment, refused because the
\* custom-resource API answered with an error other than not-found
C25_Witness ==
  /\ CRFailedOtherwise
  /\ last.op = "start"
  /\ last.name = "legacy1"
  /\ deployment["legacy1"].present
  /\ last.ret = "False"


\* C26: every message the consumer drains is emitted only to the group
\* keyed by the node and workload that produced it: each receiver has
\* joined the producer's group, and every member of that group receives it
C26_EmittedToProducersGroupOnly ==
  last.op = "emit" =>
    /\ \A sid \in last.out[2] : Room("01", last.out[1].data) \in rooms[sid]
    /\ \A sid \in Sids : rooms[sid] = {Room("01", last.out[1].data)} => sid \in last.out[2]
    /\ \A sid \in Sids : Cardinality(rooms[sid]) <= 1

\* a message of legacy1 was emitted while one subscriber is in the group
\* of legacy1 and the other in the group of s1, and only the first got it
C26_Witness ==
  /\ last.op = "emit"
  /\ last.out[1].data = "legacy1"
  /\ last.out[2] = {"sidA"}
  /\ rooms["sidB"] = {Room("01", "s1")}


\* the last call was open_ports for a server row that holds more than one
\* port, under a template that declares as many, and the proxy took the POST
OpenPortsWiredMultiPort ==
  /\ last.op = "open_ports"
  /\ PostAnsweredOK
  /\ \E s \in servers :
       /\ s.id = last.arg
       /\ Len(s.port) > 1
       /\ s.template_id \in DOMAIN templates
       /\ Len(templates[s.template_id]) = Len(s.port)

\* C27: when the template declares and the instance holds more than one
\* port, one open_ports call wires exactly one pair, the first
\* declared/leased pair
C27_OpenPortsWiresFirstPair ==
  OpenPortsWiredMultiPort =>
    \A s \in servers : s.id = last.arg =>
      /\ Cardinality({r \in routes : r.id = s.container_name}) = 1
      /\ \A r \in routes : r.id = s.container_name =>
            /\ r.listen = s.port[1]
            /\ r.dial = templates[s.template_id][1]

\* what holds instead: the pair wired is the last one
C27_OpenPortsWiresLastPair ==
  OpenPortsWiredMultiPort =>
    \A s \in servers : s.id = last.arg =>
      /\ Cardinality({r \in routes : r.id = s.container_name}) = 1
      /\ \A r \in routes : r.id = s.container_name =>
            /\ r.listen = s.port[Len(s.port)]
            /\ r.dial = templates[s.template_id][Len(s.port)]


\* both implementations have listed the same directory and given a DirList
BothListed ==
  /\ last.op = "list_directory"
  /\ Len(last.out) = 2
  /\ last.out[1].ret = "DirList"
  /\ last.out[2].ret = "DirList"

\* C28: the engine and the cluster implementation of list_directory return
\* the file names and the directory names at the same tuple positions and
\* with the same entry naming
C28_ListDirectoryUniform ==
  BothListed => last.out[1] = last.out[2]

\* what holds instead: the positions are exchanged and the cluster
\* implementation appends "/" to directory names
C28_ListDirectorySwapped ==
  BothListed =>
    /\ last.out[1].first = last.out[2].second
    /\ {d \o "/" : d \in last.out[1].second} = last.out[2].first

\* a directory with a file and a subdirectory has been listed by both
C28_Listed ==
  /\ BothListed
  /\ last.out[1].first # {}
  /\ last.out[1].second # {}


\* the engine calls of one request, by name
HasCall(calls, api) == \E i \in 1..Len(calls) : calls[i].api = api

StopBeforeDelete(calls) ==
  \E i, j \in 1..Len(calls) :
    /\ i < j
    /\ calls[i].api = "container.stop"
    /\ calls[j].api = "container.delete"

\* what the claim asks of a remove that found the container in state was
StopsThenDeletesIfRunning(was, calls) ==
  IF was = "running"
  THEN StopBeforeDelete(calls)
  ELSE HasCall(calls, "container.delete") /\ ~HasCall(calls, "container.stop")

\* a remove by one of the engine implementations has deleted a container
EngineRemoved(ops) ==
  /\ backend = "docker"
  /\ last'.op \in ops
  /\ last'.ret = "True"
  /\ containers[last'.name] # containers'[last'.name]

\* C29: on the engine backend, remove of a running container issues stop
\* before delete, and remove of a container that is not running issues
\* delete without a stop
C29_RemoveStopsRunningThenDeletes ==
  [][EngineRemoved({"remove", "docker_container_remove"}) =>
       StopsThenDeletesIfRunning(containers[last'.name], last'.calls)]_vars

\* the module-level docker_container_remove does so
C29_LegacyRemoveStopsRunningThenDeletes ==
  [][EngineRemoved({"docker_container_remove"}) =>
       StopsThenDeletesIfRunning(containers[last'.name], last'.calls)]_vars

\* DockerContainerAPI.remove issues one forced delete and never a stop
C29_RemoveForcesDelete ==
  [][EngineRemoved({"remove"}) =>
       /\ ~HasCall(last'.calls, "container.stop")
       /\ \E i \in 1..Len(last'.calls) :
            /\ last'.calls[i].api = "container.delete"
            /\ last'.calls[i].arg = "force"]_vars

\* a running container is there to be removed
C29_RunningContainer == backend = "docker" /\ containers["s1"] = "running"


MetricsFields == {"cpu", "memory", "network", "disk"}

\* a sample with the four fields, network and disk zero
StableSample(sample) ==
  /\ DOMAIN sample = MetricsFields
  /\ sample.network = 0
  /\ sample.disk = 0

\* C30: every sample emitted by stream_metrics on the cluster path carries
\* cpu, memory, network and disk with network = 0 and disk = 0, and so does
\* the sample emitted after an error of the metrics endpoint
C30_SamplesCarryFourFieldsZeroNetworkDisk ==
  /\ [](\A i \in 1..Len(metricstream.yielded) : StableSample(metricstream.yielded[i]))
  /\ [][last'.op = "metrics_poll" /\ last'.ret \in {"HTTP404", "HTTP500"} =>
          /\ Len(metricstream'.yielded) = Len(metricstream.yielded) + 1
          /\ StableSample(metricstream'.yielded[Len(metricstream'.yielded)])]_vars

\* a sample with usage figures followed by the sample of a failed round
C30_Witness ==
  /\ last.op = "metrics_poll"
  /\ last.ret = "HTTP500"
  /\ Len(metricstream.yielded) = 2
  /\ metricstream.yielded[1].cpu > 0
  /\ metricstream.yielded[1].memory > 0
  /\ metricstream.yielded[2] = ErrorSample

====
